---------------------------- MODULE Spec2Model ----------------------------
(***************************************************************************)
(* A model of the ConvertToPdf node (src/src/ConvertToPdf.node.ts): the    *)
(* per-item render dispatcher of execute, the chain of external HTML to    *)
(* PDF strategies, the pdf-lib fallback renderer with its field filter,    *)
(* and the upload step.                                                    *)
(*                                                                         *)
(* Values.  A JSON value is a tagged record: Null, Num(n), Bool(b),        *)
(* Str(s), Arr(items), Obj(keys, values) (keys in insertion order).        *)
(* Undefined is what a property read of a missing key yields.  A string    *)
(* is a sequence of tokens [c |-> chunk]; a chunk is a run of characters   *)
(* the code never looks inside ("x"), or one of the pieces its tests look  *)
(* for ("<", ">", "{", "[", "<div", "<html", white space, ...).  The       *)
(* token [c |-> "json", p |-> v] is the text JSON.stringify gives for the  *)
(* value v; JSON.parse succeeds exactly on a string that is one such token *)
(* (white space around it aside).                                          *)
(***************************************************************************)
EXTENDS Integers, Sequences, FiniteSets, TLC

\* ------------------------------------------------------------- JSON values

Null == [t |-> "null"]
Undefined == [t |-> "undef"]
Num(n) == [t |-> "num", v |-> n]
Bool(b) == [t |-> "bool", v |-> b]
Str(s) == [t |-> "str", v |-> s]
Arr(items) == [t |-> "arr", v |-> items]
Obj(keys, vals) == [t |-> "obj", k |-> keys, v |-> vals]

\* A string of plain chunks.
Lit(chunks) == [i \in 1..Len(chunks) |-> [c |-> chunks[i]]]

\* JSON.stringify(v): the one token that is v's JSON text.
JsonStringify(v) == << [c |-> "json", p |-> v] >>

\* JavaScript truthiness: null, undefined, 0, "" and false are falsy.
Truthy(p) ==
  CASE p.t = "null" -> FALSE
    [] p.t = "undef" -> FALSE
    [] p.t = "num" -> p.v # 0
    [] p.t = "str" -> p.v # <<>>
    [] p.t = "bool" -> p.v
    [] OTHER -> TRUE

\* typeof p === 'object' (null included, as in JavaScript).
TypeofObject(p) == p.t \in {"null", "arr", "obj"}

\* Object.keys of an array: its indices as strings.
IndexKeys == <<"0", "1", "2", "3", "4", "5">>

ObjectKeys(p) ==
  CASE p.t = "obj" -> p.k
    [] p.t = "arr" -> SubSeq(IndexKeys, 1, Len(p.v))
    [] OTHER -> <<>>

\* p[key] throws a TypeError exactly when p is null or undefined.
ReadThrows(p) == p.t \in {"null", "undef"}

\* p[key] where it does not throw: the value, or undefined.
Prop(p, key) ==
  CASE p.t = "obj" ->
         IF \E j \in 1..Len(p.k) : p.k[j] = key
           THEN p.v[CHOOSE j \in 1..Len(p.k) : p.k[j] = key]
           ELSE Undefined
    [] p.t = "arr" ->
         IF \E j \in 1..Len(p.v) : IndexKeys[j] = key
           THEN p.v[CHOOSE j \in 1..Len(p.v) : IndexKeys[j] = key]
           ELSE Undefined
    [] OTHER -> Undefined

\* a || b
OrElse(a, b) == IF Truthy(a) THEN a ELSE b

\* ----------------------------------------------------------------- strings

WhiteSpace == {" ", "nl", "tab"}

\* The first character of a token.
FirstChar(tok) ==
  CASE tok.c = "json" -> IF tok.p.t = "arr" THEN "[" ELSE "{"
    [] tok.c \in {"<", "<div", "<html", "<body", "<table", "<!doctype", "</html>"} -> "<"
    [] tok.c \in {"{", "{{"} -> "{"
    [] OTHER -> tok.c

\* The last character of a token.
LastChar(tok) ==
  CASE tok.c = "json" -> IF tok.p.t = "arr" THEN "]" ELSE "}"
    [] tok.c \in {">", "</html>"} -> ">"
    [] OTHER -> tok.c

RECURSIVE TrimStart(_)
TrimStart(s) ==
  IF s # <<>> /\ s[1].c \in WhiteSpace THEN TrimStart(Tail(s)) ELSE s

RECURSIVE TrimEnd(_)
TrimEnd(s) ==
  IF s # <<>> /\ s[Len(s)].c \in WhiteSpace
    THEN TrimEnd(SubSeq(s, 1, Len(s) - 1))
    ELSE s

\* String.prototype.trim
Trim(s) == TrimEnd(TrimStart(s))

\* s.startsWith(ch), ch one character
StartsWith(s, ch) == s # <<>> /\ FirstChar(s[1]) = ch

\* s.endsWith(ch), ch one character
EndsWith(s, ch) == s # <<>> /\ LastChar(s[Len(s)]) = ch

\* s.toLowerCase().includes(piece), piece one of the chunks the code looks for
Includes(s, piece) == \E j \in 1..Len(s) : s[j].c = piece

\* JSON.parse(s) succeeds exactly when s is the JSON text of one value.
ParseOk(s) == Len(Trim(s)) = 1 /\ Trim(s)[1].c = "json"

JsonParse(s) == Trim(s)[1].p


\* ------------------------------------------------------- text for pdf-lib

\* One character through sanitizeForPdf's replace chain: emojis, symbols,
\* dingbats, variation selectors and every other character above U+00FF are
\* removed; typographic punctuation becomes ASCII.
SanitizeChar(tok) ==
  CASE tok.c \in {"emoji", "miscsym", "dingbat", "varsel", "nonlatin"} -> <<>>
    [] tok.c \in {"lsquo", "rsquo"} -> Lit(<<"'">>)
    [] tok.c \in {"ldquo", "rdquo"} -> Lit(<<"dquote">>)
    [] tok.c = "hellip" -> Lit(<<".", ".", ".">>)
    [] tok.c = "ndash" -> Lit(<<"-">>)
    [] tok.c = "mdash" -> Lit(<<"-", "-">>)
    [] tok.c = "nbsp" -> Lit(<<" ">>)
    [] OTHER -> <<tok>>

RECURSIVE SanitizeChars(_)
SanitizeChars(s) ==
  IF s = <<>> THEN <<>> ELSE SanitizeChar(s[1]) \o SanitizeChars(Tail(s))

sanitizeForPdf(text) == IF text = <<>> THEN <<>> ELSE Trim(SanitizeChars(text))

\* String(p) of JavaScript.
RECURSIVE JsString(_)
RECURSIVE JsJoin(_, _)
JsJoin(items, sep) ==
  IF items = <<>> THEN <<>>
  ELSE IF Len(items) = 1 THEN JsString(items[1])
  ELSE JsString(items[1]) \o sep \o JsJoin(Tail(items), sep)

JsString(p) ==
  CASE p.t = "null" -> Lit(<<"null">>)
    [] p.t = "undef" -> Lit(<<"undefined">>)
    [] p.t = "num" -> Lit(<<ToString(p.v)>>)
    [] p.t = "bool" -> IF p.v THEN Lit(<<"true">>) ELSE Lit(<<"false">>)
    [] p.t = "str" -> p.v
    [] p.t = "arr" -> JsJoin(p.v, Lit(<<",">>))
    [] OTHER -> Lit(<<"[object Object]">>)

RECURSIVE formatValueForPdf(_)
RECURSIVE FormatJoin(_)
FormatJoin(items) ==
  IF items = <<>> THEN <<>>
  ELSE IF Len(items) = 1 THEN formatValueForPdf(items[1])
  ELSE formatValueForPdf(items[1]) \o Lit(<<",", " ">>) \o FormatJoin(Tail(items))

formatValueForPdf(val) ==
  CASE val.t \in {"null", "undef"} -> Lit(<<"-">>)
    [] val.t = "bool" -> IF val.v THEN Lit(<<"Ja">>) ELSE Lit(<<"Nein">>)
    [] val.t = "num" -> Lit(<<ToString(val.v)>>)
    [] val.t = "str" -> sanitizeForPdf(val.v)
    [] val.t = "arr" -> sanitizeForPdf(FormatJoin(val.v))
    [] OTHER -> sanitizeForPdf(JsonStringify(val))

\* The readable label of a key: the key's own text, marked as a label (the
\* camelCase and underscore rewriting leaves the key recognisable).
formatLabelForPdf(key) == sanitizeForPdf(<< [c |-> "label", k |-> key] >>)

\* value.length > max ? value.substring(0, max - 2) + '..' : value
Truncate(s, max) ==
  IF Len(s) > max
    THEN SubSeq(s, 1, IF max - 2 > 0 THEN max - 2 ELSE 0) \o Lit(<<".", ".">>)
    ELSE s

\* ------------------------------------------------------------ field filter

\* key.toLowerCase() for the keys of the model.
ToLowerCase(key) ==
  CASE key = "Id" -> "id"
    [] key = "Name" -> "name"
    [] OTHER -> key

\* A variant of shouldIncludeField that compares the key as it is written;
\* the check of the field filter depends on the difference.
shouldIncludeAsWritten(fieldName, options) ==
  IF options.includeFields # {} THEN fieldName \in options.includeFields
  ELSE IF options.excludeFields # {} THEN fieldName \notin options.excludeFields
  ELSE TRUE

shouldIncludeField(fieldName, options) ==
  LET lowerField == ToLowerCase(fieldName) IN
  IF options.includeFields # {} THEN lowerField \in options.includeFields
  ELSE IF options.excludeFields # {} THEN lowerField \notin options.excludeFields
  ELSE TRUE

\* A variant of KeptPositions that removes the rejected keys from the object
\* it is walking over, and so never looks at the key that follows a removed
\* one; the check of the filter's idempotence depends on the difference.
RECURSIVE KeptSkippingNext(_, _, _)
KeptSkippingNext(keys, j, options) ==
  IF j > Len(keys) THEN <<>>
  ELSE IF shouldIncludeField(keys[j], options)
    THEN <<j>> \o KeptSkippingNext(keys, j + 1, options)
  ELSE (IF j + 1 <= Len(keys) THEN <<j + 1>> ELSE <<>>)
         \o KeptSkippingNext(keys, j + 2, options)

\* The positions of the keys of obj that the filter keeps, in order.
RECURSIVE KeptPositions(_, _, _)
KeptPositions(keys, j, options) ==
  IF j > Len(keys) THEN <<>>
  ELSE (IF shouldIncludeField(keys[j], options) THEN <<j>> ELSE <<>>)
         \o KeptPositions(keys, j + 1, options)

\* A variant of filterObject that, under a list of fields to include, keeps
\* the records and lists below a key that is not listed and filters inside
\* them; the check of the depth of includeFields depends on the difference.
RECURSIVE filterObjectKeepingContainers(_, _)
filterObjectKeepingContainers(obj, options) ==
  CASE obj.t = "arr" ->
         Arr([j \in 1..Len(obj.v) |->
                filterObjectKeepingContainers(obj.v[j], options)])
    [] obj.t = "obj" ->
         LET kept == SelectSeq([j \in 1..Len(obj.k) |-> j],
                               LAMBDA j : \/ shouldIncludeField(obj.k[j], options)
                                          \/ obj.v[j].t \in {"arr", "obj"})
         IN Obj([j \in 1..Len(kept) |-> obj.k[kept[j]]],
                [j \in 1..Len(kept) |->
                   filterObjectKeepingContainers(obj.v[kept[j]], options)])
    [] OTHER -> obj

RECURSIVE filterObject(_, _)
filterObject(obj, options) ==
  CASE obj.t = "arr" ->
         Arr([j \in 1..Len(obj.v) |-> filterObject(obj.v[j], options)])
    [] obj.t = "obj" ->
         LET kept == KeptPositions(obj.k, 1, options) IN
         Obj([j \in 1..Len(kept) |-> obj.k[kept[j]]],
             [j \in 1..Len(kept) |-> filterObject(obj.v[kept[j]], options)])
    [] OTHER -> obj

\* A variant of filterDataFields that keeps every field; the check of the
\* structured route depends on the difference.
KeepEveryField(data, options) == data

filterDataFields(data, options) == filterObject(data, options)

\* ------------------------------------------------ the page layout engine

\* The page of the model.  pdfDoc.addPage() gives every page the size of the
\* PDF library's default page; the model's pages are small, so that a few rows
\* fill one.
PageWidth == 160
PageHeight == 240

\* pdfDoc.addPage() is called without a size and page.getSize() read back:
\* every page pdf-lib renders has the library's default size.
PageSize == [width |-> PageWidth, height |-> PageHeight]

margin == 50
lineHeight == 14
titleSize == 18
headerSize == 14
subHeaderSize == 11
textSize == 9
smallSize == 8
maxMsgLen == 40
maxAuthorLen == 18
maxValLen == 60
shaLen == 7

contentWidth == PageWidth - margin * 2

\* The cursor of one render pass: the current page, the vertical position y,
\* the draw operations made so far, and whether the pass has thrown.
StartCursor ==
  [threw |-> FALSE, page |-> 1, y |-> PageHeight - margin, ops |-> <<>>]

Throw(st) == [st EXCEPT !.threw = TRUE]

MoveDown(st, dy) == [st EXCEPT !.y = @ - dy]

checkNewPage(st, neededSpace) ==
  IF st.y - neededSpace < margin
    THEN [st EXCEPT !.page = @ + 1, !.y = PageHeight - margin]
    ELSE st

\* drawText sanitizes String(text || '') and draws it on the current page.
drawText(st, text, yPos, size, bold) ==
  [st EXCEPT !.ops = Append(@, [op |-> "text", page |-> st.page, y |-> yPos,
                                s |-> sanitizeForPdf(text), size |-> size,
                                bold |-> bold])]

\* A line from height y1 to height y2; nan tells that the heights were computed
\* from an undefined length (NaN), and then y1 and y2 say nothing.
drawLineAt(st, y1, y2, nan) ==
  [st EXCEPT !.ops = Append(@, [op |-> "line", page |-> st.page, y1 |-> y1,
                                y2 |-> y2, nan |-> nan])]

drawLine(st, y1, y2) == drawLineAt(st, y1, y2, FALSE)

\* A variant of drawRect that draws on the first page of the document instead
\* of the current one; the check of the pagination depends on the difference.
drawRectOnFirstPage(st, yPos, h) ==
  [st EXCEPT !.ops = Append(@, [op |-> "rect", page |-> 1, y |-> yPos,
                                h |-> h])]

drawRect(st, yPos, h) ==
  [st EXCEPT !.ops = Append(@, [op |-> "rect", page |-> st.page, y |-> yPos,
                                h |-> h])]

\* options.pdfTitle || fallback
TitleOr(options, fallback) ==
  IF options.pdfTitle # <<>> THEN options.pdfTitle ELSE Lit(<<fallback>>)

\* The summary table: one row per scalar key.
RECURSIVE SummaryRows(_, _, _, _)
SummaryRows(st, data, scalarKeys, j) ==
  IF j > Len(scalarKeys) THEN st
  ELSE
    LET s1 == checkNewPage(st, lineHeight + 5)
        val == Prop(data, scalarKeys[j])
        s2 == IF (j - 1) % 2 = 0
                THEN drawRect(s1, s1.y - lineHeight + 2, lineHeight)
                ELSE s1
        s3 == drawText(s2, formatLabelForPdf(scalarKeys[j]), s1.y - textSize,
                       textSize, TRUE)
        s4 == drawText(s3, Truncate(formatValueForPdf(val), maxValLen),
                       s1.y - textSize, textSize, FALSE)
        s5 == drawLine(s4, s1.y - lineHeight + 2, s1.y - lineHeight + 2)
    IN SummaryRows(MoveDown(s5, lineHeight), data, scalarKeys, j + 1)

\* The lines of one nested object: its scalar fields, nested values skipped
\* (after the page check).
RECURSIVE SubObjectLines(_, _, _)
SubObjectLines(st, obj, j) ==
  IF j > Len(ObjectKeys(obj)) THEN st
  ELSE
    LET s1 == checkNewPage(st, lineHeight + 5)
        subKey == ObjectKeys(obj)[j]
        subVal == Prop(obj, subKey)
    IN IF TypeofObject(subVal) /\ subVal.t # "null"
         THEN SubObjectLines(s1, obj, j + 1)
         ELSE
           LET s2 == drawText(s1, formatLabelForPdf(subKey), s1.y - textSize,
                              smallSize, TRUE)
               s3 == drawText(s2, formatValueForPdf(subVal), s1.y - textSize,
                              smallSize, FALSE)
           IN SubObjectLines(MoveDown(s3, lineHeight - 2), obj, j + 1)

RECURSIVE ObjectSections(_, _, _, _)
ObjectSections(st, data, objectKeys, j) ==
  IF j > Len(objectKeys) THEN st
  ELSE
    LET s1 == checkNewPage(st, 50)
        s2 == drawText(s1, formatLabelForPdf(objectKeys[j]), s1.y,
                       subHeaderSize, TRUE)
        s3 == SubObjectLines(MoveDown(s2, subHeaderSize + 6),
                             Prop(data, objectKeys[j]), 1)
    IN ObjectSections(MoveDown(s3, 10), data, objectKeys, j + 1)

\* A variant of ColKeys that makes a column of every key of the first row; the
\* check of the table's columns depends on the difference.
ColKeysOfEveryKey(arr) ==
  IF TypeofObject(arr.v[1]) /\ arr.v[1].t # "null"
    THEN ObjectKeys(arr.v[1])
    ELSE <<>>

\* The column keys of a table: the keys of row 0 whose value in row 0 is not
\* an object or array.
ColKeys(arr) ==
  IF TypeofObject(arr.v[1]) /\ arr.v[1].t # "null"
    THEN SelectSeq(ObjectKeys(arr.v[1]),
                   LAMBDA k : ~TypeofObject(Prop(arr.v[1], k))
                              \/ Prop(arr.v[1], k).t = "null")
    ELSE <<>>

\* Math.floor(colWidth / 5) and Math.floor(colWidth / 4.5), colWidth being
\* contentWidth / n.
HeaderMaxChars(n) == contentWidth \div (5 * n)
CellMaxChars(n) == (2 * contentWidth) \div (9 * n)

\* The fallback of a table with no column: one line per item.
RECURSIVE ItemLines(_, _, _)
ItemLines(st, arr, j) ==
  IF j > Len(arr.v) THEN st
  ELSE
    LET s1 == checkNewPage(st, lineHeight)
        s2 == drawText(s1, Lit(<<"-", " ">>) \o formatValueForPdf(arr.v[j]),
                       s1.y - textSize, textSize, FALSE)
    IN ItemLines(MoveDown(s2, lineHeight), arr, j + 1)

RECURSIVE HeaderCells(_, _, _)
HeaderCells(st, colKeys, j) ==
  IF j > Len(colKeys) THEN st
  ELSE HeaderCells(
         drawText(st, Truncate(formatLabelForPdf(colKeys[j]),
                               HeaderMaxChars(Len(colKeys))),
                  st.y - textSize, smallSize, TRUE),
         colKeys, j + 1)

\* The cells of one row; row[colKeys[i]] throws when the row is null.
RECURSIVE RowCells(_, _, _, _)
RowCells(st, row, colKeys, j) ==
  IF j > Len(colKeys) THEN st
  ELSE IF ReadThrows(row) THEN Throw(st)
  ELSE RowCells(
         drawText(st, Truncate(formatValueForPdf(Prop(row, colKeys[j])),
                               CellMaxChars(Len(colKeys))),
                  st.y - textSize, smallSize, FALSE),
         row, colKeys, j + 1)

RECURSIVE DataRows(_, _, _, _)
DataRows(st, arr, colKeys, rowIdx) ==
  IF rowIdx > Len(arr.v) \/ st.threw THEN st
  ELSE
    LET s1 == checkNewPage(st, lineHeight + 5)
        s2 == IF (rowIdx - 1) % 2 = 0
                THEN drawRect(s1, s1.y - lineHeight + 2, lineHeight)
                ELSE s1
        s3 == RowCells(s2, arr.v[rowIdx], colKeys, 1)
        s4 == drawLine(s3, s1.y - lineHeight + 2, s1.y - lineHeight + 2)
    IN IF s3.threw THEN s3
       ELSE DataRows(MoveDown(s4, lineHeight), arr, colKeys, rowIdx + 1)

\* A variant of ArraySection that draws no section header; the check of the
\* order of the sections depends on the difference.
ArraySectionWithoutHeader(st, data, key) ==
  LET arr == IF key = "_root" THEN data ELSE Prop(data, key) IN
  IF arr.t # "arr" \/ arr.v = <<>> THEN st
  ELSE
    LET s2 == checkNewPage(st, 60)
        colKeys == ColKeys(arr)
    IN IF colKeys = <<>> THEN ItemLines(s2, arr, 1)
       ELSE
         LET s3 == drawRect(s2, s2.y - lineHeight + 2, lineHeight)
             s4 == HeaderCells(s3, colKeys, 1)
             s5 == drawLine(s4, s2.y - lineHeight + 2, s2.y - lineHeight + 2)
             s6 == DataRows(MoveDown(s5, lineHeight), arr, colKeys, 1)
         IN IF s6.threw THEN s6 ELSE MoveDown(s6, 20)

\* One array of the generic rendering: its section header and its table.
ArraySection(st, data, key) ==
  LET arr == IF key = "_root" THEN data ELSE Prop(data, key) IN
  IF arr.t # "arr" \/ arr.v = <<>> THEN st
  ELSE
    LET s1 == checkNewPage(st, 60)
        s2 == IF key # "_root"
                THEN MoveDown(drawText(s1, formatLabelForPdf(key), s1.y,
                                       subHeaderSize, TRUE),
                              subHeaderSize + 8)
                ELSE s1
        colKeys == ColKeys(arr)
    IN IF colKeys = <<>> THEN ItemLines(s2, arr, 1)
       ELSE
         LET s3 == drawRect(s2, s2.y - lineHeight + 2, lineHeight)
             s4 == HeaderCells(s3, colKeys, 1)
             s5 == drawLine(s4, s2.y - lineHeight + 2, s2.y - lineHeight + 2)
             s6 == DataRows(MoveDown(s5, lineHeight), arr, colKeys, 1)
         IN IF s6.threw THEN s6 ELSE MoveDown(s6, 20)

RECURSIVE ArraySections(_, _, _, _)
ArraySections(st, data, arrayKeys, j) ==
  IF j > Len(arrayKeys) \/ st.threw THEN st
  ELSE ArraySections(ArraySection(st, data, arrayKeys[j]), data, arrayKeys, j + 1)

\* The generic structured rendering: title, summary, nested objects, arrays.
RenderGeneric(st, data, options) ==
  LET keys == ObjectKeys(data)
      arrayKeys == IF data.t = "arr" THEN <<"_root">>
                   ELSE SelectSeq(keys, LAMBDA k : Prop(data, k).t = "arr")
      objectKeys == IF data.t = "arr" THEN <<>>
                    ELSE SelectSeq(keys, LAMBDA k : Prop(data, k).t = "obj")
      scalarKeys == IF data.t = "arr" THEN <<>>
                    ELSE SelectSeq(keys, LAMBDA k : Prop(data, k).t \notin {"arr", "obj"})
      s1 == MoveDown(drawText(st, TitleOr(options, "Datenreport"), st.y,
                              titleSize, TRUE),
                     titleSize + 15)
      s2 == IF scalarKeys # <<>>
              THEN MoveDown(
                     SummaryRows(
                       MoveDown(drawText(s1, Lit(<<"Zusammenfassung">>), s1.y,
                                         headerSize, TRUE),
                                headerSize + 8),
                       data, scalarKeys, 1),
                     15)
              ELSE s1
      s3 == ObjectSections(s2, data, objectKeys, 1)
  IN ArraySections(s3, data, arrayKeys, 1)

\* ------------------------------------------- the Git commit report shape

\* value.length, where the value has one.
HasLength(p) == p.t \in {"str", "arr"}

\* The elements a for loop over i < commits.length visits.
Elements(p) ==
  CASE p.t = "arr" -> p.v
    [] p.t = "str" -> [j \in 1..Len(p.v) |-> Str(<<p.v[j]>>)]
    [] OTHER -> <<>>

\* new Date(dateStr).toLocaleString('de-CH', ...): the formatted date of a
\* well-formed date, and the text "Invalid Date" otherwise; it does not throw.
formatDateTime(dateStr) ==
  IF dateStr.t = "num" \/ (dateStr.t = "str" /\ dateStr.v = Lit(<<"isodate">>))
    THEN << [c |-> "localdate", d |-> dateStr] >>
    ELSE Lit(<<"Invalid Date">>)

\* displayMsg.replace(/\n/g, ' ')
NewlinesToSpaces(s) ==
  [j \in 1..Len(s) |-> IF s[j].c = "nl" THEN [c |-> " "] ELSE s[j]]

\* One commit row.  Reading a field of a null commit throws; so do
\* sha.substring and displayMsg.replace on a value that is not a string.
CommitRow(st, commit, i) ==
  LET s1 == checkNewPage(st, lineHeight + 5)
      s2 == IF i % 2 = 0
              THEN drawRect(s1, s1.y - lineHeight + 2, lineHeight)
              ELSE s1
      sha == OrElse(OrElse(Prop(commit, "shortSha"), Prop(commit, "sha")),
                    Str(Lit(<<"-">>)))
      msg == OrElse(Prop(commit, "message"), Str(Lit(<<"-">>)))
      author == Prop(commit, "author")
      authorName == IF ~Truthy(author) THEN Str(Lit(<<"-">>))
                    ELSE IF author.t = "str" THEN author
                    ELSE IF Truthy(Prop(author, "name")) THEN Prop(author, "name")
                    ELSE Str(Lit(<<"-">>))
      longAuthor == HasLength(authorName) /\ Len(authorName.v) > maxAuthorLen
      displayAuthor == IF longAuthor
                         THEN Truncate(authorName.v, maxAuthorLen)
                         ELSE IF Truthy(authorName) THEN JsString(authorName)
                         ELSE <<>>
      dateStr == IF Truthy(author) /\ Truthy(Prop(author, "date"))
                   THEN formatDateTime(Prop(author, "date"))
                 ELSE IF Truthy(Prop(commit, "date"))
                   THEN formatDateTime(Prop(commit, "date"))
                 ELSE Lit(<<"-">>)
  IN IF ReadThrows(commit) \/ sha.t # "str" THEN Throw(s2)
     ELSE
       LET s3 == drawText(s2, SubSeq(sha.v, 1, IF Len(sha.v) < shaLen
                                                 THEN Len(sha.v) ELSE shaLen),
                          s1.y - textSize, smallSize, FALSE)
       IN IF msg.t # "str" THEN Throw(s3)
          ELSE
            LET s4 == drawText(s3, NewlinesToSpaces(Truncate(msg.v, maxMsgLen)),
                               s1.y - textSize, smallSize, FALSE)
            IN IF longAuthor /\ authorName.t # "str" THEN Throw(s4)
               ELSE
                 LET s5 == drawText(s4, displayAuthor, s1.y - textSize,
                                    smallSize, FALSE)
                     s6 == drawText(s5, dateStr, s1.y - textSize, smallSize,
                                    FALSE)
                     s7 == drawLine(s6, s1.y - lineHeight + 2,
                                    s1.y - lineHeight + 2)
                 IN MoveDown(s7, lineHeight)

RECURSIVE CommitRows(_, _, _)
CommitRows(st, commits, j) ==
  IF j > Len(commits) \/ st.threw THEN st
  ELSE CommitRows(CommitRow(st, commits[j], j - 1), commits, j + 1)

RECURSIVE ColumnLabels(_, _, _)
ColumnLabels(st, labels, j) ==
  IF j > Len(labels) THEN st
  ELSE ColumnLabels(drawText(st, Lit(<<labels[j]>>), st.y - textSize,
                             textSize, TRUE),
                    labels, j + 1)

\* The left and right borders of a repository's table, drawn after its last
\* row from the height the table started at.
RepoBorders(st, commits) ==
  LET top == st.y + (Len(Elements(commits)) + 1) * lineHeight + 2
      nan == ~HasLength(commits)
  IN IF st.threw THEN st
     ELSE MoveDown(drawLineAt(drawLineAt(st, top, st.y + 2, nan), top,
                              st.y + 2, nan),
                   25)

\* The table of a repository's commits: the header row, the commit rows, the
\* borders.
RepoTable(st, commits) ==
  LET s1 == checkNewPage(st, lineHeight * 2)
      s2 == ColumnLabels(drawRect(s1, s1.y - lineHeight + 2, lineHeight),
                         <<"SHA", "Nachricht", "Autor", "Datum">>, 1)
      s3 == MoveDown(drawLine(s2, s1.y - lineHeight + 2, s1.y - lineHeight + 2),
                     lineHeight)
  IN RepoBorders(CommitRows(s3, Elements(commits), 1), commits)

\* One repository of the Git report: header band, commit count, and the table
\* of its commits.
RepoSection(st, repo) ==
  LET s1 == checkNewPage(st, 100)
      s2 == drawRect(s1, s1.y - lineHeight - 2, lineHeight + 6)
  IN IF ReadThrows(repo) THEN Throw(s2)
     ELSE
       LET name == OrElse(Prop(repo, "repository"),
                          Str(Lit(<<"Unknown Repository">>)))
           s3 == MoveDown(drawText(s2, sanitizeForPdf(JsString(name)),
                                   s1.y - textSize, subHeaderSize, TRUE),
                          lineHeight + 10)
           rc == Prop(repo, "commits")
           commitCount == OrElse(Prop(repo, "count"),
                                 IF Truthy(rc)
                                   THEN (IF HasLength(rc) THEN Num(Len(rc.v))
                                         ELSE Undefined)
                                   ELSE Num(0))
       IN RepoTable(MoveDown(drawText(s3, Lit(<<"Anzahl Commits: ">>)
                                            \o JsString(commitCount),
                                      s3.y - textSize, textSize, FALSE),
                             lineHeight + 5),
                    IF Truthy(rc) THEN rc ELSE Arr(<<>>))

RECURSIVE RepoSections(_, _, _)
RepoSections(st, data, j) ==
  IF j > Len(data.v) \/ st.threw THEN st
  ELSE RepoSections(RepoSection(st, data.v[j]), data, j + 1)

RenderGit(st, data, options) ==
  RepoSections(
    MoveDown(drawText(st, TitleOr(options, "Git Commit Report"), st.y,
                      titleSize, TRUE),
             titleSize + 15),
    data, 1)

\* renderStructuredPdf: the date header, then the Git report rendering when
\* data[0] carries repository and commits, the generic rendering otherwise.
\* Reading data[0].repository throws when data[0] is null.
renderStructuredPdf(data, options) ==
  LET s0 == MoveDown(drawText(StartCursor, Lit(<<"Erstellt: ", "now">>),
                              StartCursor.y, smallSize, FALSE),
                     25)
      nonEmptyArray == data.t = "arr" /\ data.v # <<>>
  IN IF nonEmptyArray /\ ReadThrows(data.v[1]) THEN Throw(s0)
     ELSE IF nonEmptyArray /\ Truthy(Prop(data.v[1], "repository"))
                           /\ Truthy(Prop(data.v[1], "commits"))
            THEN RenderGit(s0, data, options)
            ELSE RenderGeneric(s0, data, options)

\* ------------------------------------------------- the plain text fallback

\* String(v).replace(/<[^>]*>/g, ' '): every piece from a "<" to the next ">"
\* becomes one space; a "<" that is never closed stays.
RECURSIVE stripHtmlTags(_)
stripHtmlTags(v) ==
  IF v = <<>> THEN <<>>
  ELSE IF FirstChar(v[1]) = "<" /\ LastChar(v[1]) = ">"
    THEN <<[c |-> " "]>> \o stripHtmlTags(Tail(v))
  ELSE IF FirstChar(v[1]) = "<" /\ \E j \in 2..Len(v) : LastChar(v[j]) = ">"
    THEN LET close == CHOOSE j \in 2..Len(v) :
                        /\ LastChar(v[j]) = ">"
                        /\ \A h \in 2..(j - 1) : LastChar(v[h]) # ">"
         IN <<[c |-> " "]>> \o stripHtmlTags(SubSeq(v, close + 1, Len(v)))
  ELSE <<v[1]>> \o stripHtmlTags(Tail(v))

\* text.split(/\s+/) of a trimmed text: its words.
RECURSIVE SplitWords(_, _)
SplitWords(text, word) ==
  IF text = <<>> THEN (IF word = <<>> THEN <<>> ELSE <<word>>)
  ELSE IF text[1].c \in WhiteSpace
    THEN (IF word = <<>> THEN <<>> ELSE <<word>>) \o SplitWords(Tail(text), <<>>)
  ELSE SplitWords(Tail(text), Append(word, text[1]))

\* The width the font measures for a text: CharWidth for each character.
CharWidth == 10
widthOfTextAtSize(text) == Len(text) * CharWidth

\* wrapText: greedy word wrap; a word alone on a line is never broken.
RECURSIVE WrapWords(_, _, _)
WrapWords(words, current, maxWidth) ==
  IF words = <<>> THEN (IF current # <<>> THEN <<current>> ELSE <<>>)
  ELSE
    LET w == words[1]
        trial == IF current # <<>> THEN current \o <<[c |-> " "]>> \o w ELSE w
    IN IF widthOfTextAtSize(trial) > maxWidth
         THEN (IF current # <<>> THEN <<current>> ELSE <<>>)
                \o WrapWords(Tail(words), w, maxWidth)
         ELSE WrapWords(Tail(words), trial, maxWidth)

wrapText(text, maxWidth) == WrapWords(SplitWords(text, <<>>), <<>>, maxWidth)

plainFontSize == 11

\* The line loop of the plain text path.  A page is added when y has run out,
\* and every line is drawn on `page`, the first page of the document.
RECURSIVE PlainLines(_, _, _)
PlainLines(st, lines, j) ==
  IF j > Len(lines) THEN st
  ELSE
    LET s1 == IF st.y < margin + plainFontSize
                THEN [st EXCEPT !.pages = @ + 1, !.y = PageHeight - margin]
                ELSE st
        s2 == [s1 EXCEPT !.ops = Append(@, [op |-> "text", page |-> 1,
                                            y |-> s1.y - plainFontSize,
                                            s |-> lines[j],
                                            size |-> plainFontSize,
                                            bold |-> FALSE])]
    IN PlainLines(MoveDown(s2, plainFontSize + 4), lines, j + 1)

\* The result of a render: a record telling whether it threw, which path it
\* took (structured or plain), the data the structured path drew (after the
\* field filter), the number of pages, the draw operations and the size of
\* the pages.
Rendered(path, data, threw, pages, ops) ==
  [threw |-> threw, path |-> path, data |-> data, pages |-> pages, ops |-> ops,
   size |-> PageSize]

StructuredPath(filtered, st) ==
  Rendered("structured", filtered, st.threw, st.page, st.ops)

PlainPath(st) == Rendered("plain", Null, FALSE, st.pages, st.ops)

\* The structured path of renderTextPdfFallback: the field filter, then the
\* structured rendering of what it kept.
RenderFiltered(filtered, options) ==
  StructuredPath(filtered, renderStructuredPdf(filtered, options))

\* A variant of renderTextPdfFallback that lays out the parsed data and
\* filters it afterwards; the check that no rejected key is drawn depends on
\* the difference.
fallbackFiltersLate(htmlOrText, options) ==
  LET trimmed == Trim(htmlOrText)
      parsed == (StartsWith(trimmed, "{") \/ StartsWith(trimmed, "[")) /\ ParseOk(trimmed)
  IN IF parsed /\ Truthy(JsonParse(trimmed)) /\ TypeofObject(JsonParse(trimmed))
       THEN StructuredPath(filterDataFields(JsonParse(trimmed), options),
                           renderStructuredPdf(JsonParse(trimmed), options))
       ELSE PlainPath(
              PlainLines([pages |-> 1, y |-> PageHeight - margin, ops |-> <<>>],
                         wrapText(sanitizeForPdf(stripHtmlTags(htmlOrText)),
                                  PageWidth - margin * 2),
                         1))

\* renderTextPdfFallback: text that parses as a JSON object or array takes the
\* structured path; any other text is stripped of its tags, sanitized, wrapped
\* and drawn line by line.
renderTextPdfFallback(htmlOrText, options) ==
  LET trimmed == Trim(htmlOrText)
      parsed == (StartsWith(trimmed, "{") \/ StartsWith(trimmed, "[")) /\ ParseOk(trimmed)
  IN IF parsed /\ Truthy(JsonParse(trimmed)) /\ TypeofObject(JsonParse(trimmed))
       THEN RenderFiltered(filterDataFields(JsonParse(trimmed), options), options)
       ELSE PlainPath(
              PlainLines([pages |-> 1, y |-> PageHeight - margin, ops |-> <<>>],
                         wrapText(sanitizeForPdf(stripHtmlTags(htmlOrText)),
                                  PageWidth - margin * 2),
                         1))

\* ------------------------------------------------------ markup and template

\* escapeHtml: & < > become entities.
EscapeToken(tok) ==
  CASE tok.c = "&" -> Lit(<<"&amp;">>)
    [] tok.c = "<" -> Lit(<<"&lt;">>)
    [] tok.c = ">" -> Lit(<<"&gt;">>)
    [] tok.c \in {"<div", "<html", "<body", "<table", "<!doctype"} ->
         Lit(<<"&lt;", "name">>)
    [] tok.c = "</html>" -> Lit(<<"&lt;", "name", "&gt;">>)
    [] OTHER -> <<tok>>

RECURSIVE escapeHtml(_)
escapeHtml(s) ==
  IF s = <<>> THEN <<>> ELSE EscapeToken(s[1]) \o escapeHtml(Tail(s))

\* The markup the HTML renderers (renderArrayAsHtml, renderObjectAsHtml, the
\* pre block of a text) produce for a value: an element, opening with "<" and
\* closing with ">", whose inside the dispatcher never reads.
HtmlElement(kind, v) ==
  << [c |-> "<"], [c |-> "element", kind |-> kind, of |-> v], [c |-> ">"] >>

\* acc.add(k) for every key of a row: a key already in the set keeps its
\* place.
RECURSIVE AddKeys(_, _)
AddKeys(acc, keys) ==
  IF keys = <<>> THEN acc
  ELSE AddKeys(IF \E j \in DOMAIN acc : acc[j] = keys[1] THEN acc
               ELSE Append(acc, keys[1]),
               Tail(keys))

\* A variant of ReduceKeys that takes the keys of the first row only; the
\* check of the columns of the markup table depends on the difference.
RECURSIVE ReduceFirstRowOnly(_, _, _)
ReduceFirstRowOnly(arr, j, acc) ==
  IF j > 1 THEN acc
  ELSE ReduceFirstRowOnly(arr, j + 1, AddKeys(acc, ObjectKeys(arr.v[j])))

\* arr.reduce(...): the keys of every row that is an object, in the order in
\* which they are first seen.
RECURSIVE ReduceKeys(_, _, _)
ReduceKeys(arr, j, acc) ==
  IF j > Len(arr.v) THEN acc
  ELSE ReduceKeys(arr, j + 1,
                  IF Truthy(arr.v[j]) /\ TypeofObject(arr.v[j])
                    THEN AddKeys(acc, ObjectKeys(arr.v[j]))
                    ELSE acc)

\* renderArrayAsHtml: a paragraph for an empty array; a table for an array
\* whose first element is an object, with one header cell for each key of
\* ReduceKeys and, in every row, one cell for each of these keys holding
\* formatValue(row?.[k]); a list for any other array.
renderArrayAsHtml(arr) ==
  IF arr.v = <<>> THEN HtmlElement("p", Str(Lit(<<"Keine Daten">>)))
  ELSE IF TypeofObject(arr.v[1]) /\ arr.v[1].t # "null"
    THEN LET keys == ReduceKeys(arr, 1, <<>>) IN
         << [c |-> "<"],
            [c |-> "element", kind |-> "table", of |-> arr, header |-> keys,
             rows |-> [r \in DOMAIN arr.v |->
                         [h \in DOMAIN keys |->
                            [key |-> keys[h], val |-> Prop(arr.v[r], keys[h])]]]],
            [c |-> ">"] >>
    ELSE HtmlElement("ul", arr)

renderObjectAsHtml(obj) == HtmlElement("object", obj)

\* toHtml of a value that is not a string (rawData never is one).
toHtml(obj) ==
  IF ~Truthy(obj) THEN HtmlElement("div", Null)
  ELSE IF Truthy(Prop(obj, "html")) /\ Prop(obj, "html").t = "str"
    THEN Prop(obj, "html").v
  ELSE IF Truthy(Prop(obj, "text")) /\ Prop(obj, "text").t = "str"
    THEN HtmlElement("pre", Prop(obj, "text"))
  ELSE IF obj.t = "arr" THEN renderArrayAsHtml(obj)
  ELSE IF obj.t = "obj" THEN renderObjectAsHtml(obj)
  ELSE HtmlElement("pre", obj)

\* current[part] for the parts a template path can name: an own field, the
\* length of a string or of an array, the character of a string at an index.
Member(current, part) ==
  IF part = "length" /\ current.t \in {"str", "arr"} THEN Num(Len(current.v))
  ELSE IF current.t = "str"
    THEN IF \E j \in 1..Len(current.v) : IndexKeys[j] = part
           THEN Str(<<current.v[CHOOSE j \in 1..Len(current.v) : IndexKeys[j] = part]>>)
           ELSE Undefined
  ELSE Prop(current, part)

\* getNestedValue(obj, path): undefined as soon as a step reads null or
\* undefined.
RECURSIVE WalkPath(_, _)
WalkPath(current, parts) ==
  IF parts = <<>> THEN current
  ELSE IF ReadThrows(current) THEN Undefined
  ELSE WalkPath(Member(current, parts[1]), Tail(parts))

getNestedValue(obj, path) ==
  IF ~Truthy(obj) \/ path = <<>> THEN Undefined ELSE WalkPath(obj, path)

\* What a data placeholder is replaced by, given the value found.
FieldMarkup(value) ==
  IF value.t \in {"undef", "null"} THEN <<>>
  ELSE IF value.t = "arr" THEN renderArrayAsHtml(value)
  ELSE IF value.t = "obj" THEN renderObjectAsHtml(value)
  ELSE escapeHtml(JsString(value))

\* A placeholder of a template is the token [c |-> "{{", ph |-> name, path |->
\* p]: name is title, date, datetime, json, content, table, data (with the
\* dotted path p) or field (a bare {{p[1]}}).
IsPlaceholder(tok, name) == tok.c = "{{" /\ tok.ph = name

\* result.replace(regexp, replacement): one pass over the text, every match
\* replaced, the replacement not scanned again by this pass.
RECURSIVE Concat(_)
Concat(pieces) ==
  IF pieces = <<>> THEN <<>> ELSE pieces[1] \o Concat(Tail(pieces))

ReplaceAll(s, name, Replacement(_)) ==
  Concat([j \in 1..Len(s) |->
            IF IsPlaceholder(s[j], name) THEN Replacement(s[j]) ELSE <<s[j]>>])

ReservedNames == {"title", "date", "datetime", "json", "content", "table"}

\* The table pass: the array itself, the first array found in an object, the
\* object as a table when it holds no array, nothing for any other data.
TableMarkup(data) ==
  IF data.t = "arr" THEN renderArrayAsHtml(data)
  ELSE IF data.t = "obj"
    THEN IF \E j \in 1..Len(data.k) : data.v[j].t = "arr"
           THEN renderArrayAsHtml(
                  data.v[CHOOSE j \in 1..Len(data.k) :
                           /\ data.v[j].t = "arr"
                           /\ \A h \in 1..(j - 1) : data.v[h].t # "arr"])
           ELSE renderObjectAsHtml(data)
  ELSE <<>>

\* processTemplate: the substitution passes in the order of the code; each
\* pass works on the result of the pass before it.
processTemplate(template, data, title) ==
  IF template = <<>> THEN <<>>
  ELSE
    LET r1 == ReplaceAll(template, "title",
                LAMBDA tok : escapeHtml(IF title # <<>> THEN title
                                        ELSE Lit(<<"Dokument">>)))
        r2 == ReplaceAll(r1, "date", LAMBDA tok : Lit(<<"now">>))
        r3 == ReplaceAll(r2, "datetime", LAMBDA tok : Lit(<<"now">>))
        r4 == ReplaceAll(r3, "json",
                LAMBDA tok : Lit(<<"<", "pre", ">">>)
                             \o escapeHtml(JsonStringify(data))
                             \o Lit(<<"<", "/pre", ">">>))
        r5 == ReplaceAll(r4, "content", LAMBDA tok : toHtml(data))
        r6 == ReplaceAll(r5, "table", LAMBDA tok : TableMarkup(data))
        r7 == ReplaceAll(r6, "data",
                LAMBDA tok : FieldMarkup(getNestedValue(data, tok.path)))
        r8 == ReplaceAll(r7, "field",
                LAMBDA tok :
                  IF ToLowerCase(tok.path[1]) \in ReservedNames THEN <<tok>>
                  ELSE IF data.t = "obj"
                    THEN FieldMarkup(Prop(data, tok.path[1]))
                  ELSE <<>>)
    IN r8

\* The literal backslash sequences are rewritten only when the text holds a
\* literal \n.
normalizeHtml(html) ==
  IF Includes(html, "bs-n")
    THEN [j \in 1..Len(html) |->
            CASE html[j].c = "bs-n" -> [c |-> "nl"]
              [] html[j].c = "bs-t" -> [c |-> "tab"]
              [] html[j].c = "bs-quote" -> [c |-> "dquote"]
              [] OTHER -> html[j]]
    ELSE html

\* wrapHtmlDocument: a complete document is returned as it is; anything else is
\* put into the style-sheet shell, whose @page size depends on pageFormat.
wrapHtmlDocument(html, pageFormat) ==
  LET lowerHtml == Trim(html) IN
  IF lowerHtml # <<>> /\ lowerHtml[1].c \in {"<!doctype", "<html"} THEN html
  ELSE << [c |-> "<!doctype"],
          [c |-> "style", size |-> IF pageFormat = "Letter" THEN "8.5in 11in"
                                   ELSE "210mm 297mm"] >>
         \o html \o << [c |-> "</html>"] >>

\* ------------------------------------------------------------- the inputs

\* The records and payloads the items of the model carry.
RecA == Obj(<<"id", "name">>, <<Num(1), Str(Lit(<<"x">>))>>)
RecB == Obj(<<"id", "name">>, <<Num(2), Str(Lit(<<"y">>))>>)
RecOther == Obj(<<"Name", "tags">>, <<Str(Lit(<<"z">>)), Arr(<<Num(1)>>)>>)
CommitA ==
  Obj(<<"sha", "message", "author">>,
      <<Str(Lit(<<"a", "b", "c">>)), Str(Lit(<<"fix">>)),
        Obj(<<"name", "date">>, <<Str(Lit(<<"Ann">>)), Str(Lit(<<"isodate">>))>>)>>)
CommitB ==
  Obj(<<"shortSha", "message", "date">>,
      <<Str(Lit(<<"d">>)), Str(Lit(<<"add">>)), Str(Lit(<<"soon">>))>>)
CommitNum == Obj(<<"sha", "message">>, <<Num(7), Num(8)>>)
Repo(commits) ==
  Obj(<<"repository", "commits">>, <<Str(Lit(<<"repo">>)), Arr(commits)>>)

\* The number of commits of a repository whose table goes on to a second page.
MaxCommits == 7

LongLog == [j \in 1..MaxCommits |-> CommitA]
\* A record with a value longer than the cell of a two-column table, and a
\* record with so many columns that a cell holds less than two characters.
RecLong ==
  Obj(<<"id", "name">>,
      <<Num(3), Str(Lit(<<"a", "b", "c", "d", "e", "f", "g", "h">>))>>)
RecWide ==
  Obj(<<"c1", "c2", "c3", "c4", "c5", "c6", "c7">>,
      <<Num(1), Num(2), Num(3), Num(4), Num(5), Num(6),
        Str(Lit(<<"a", "b", "c">>))>>)
\* A record whose name is itself a record.
RecNested ==
  Obj(<<"id", "name">>, <<Num(4), Obj(<<"x">>, <<Num(1)>>)>>)
\* A report: scalars, a nested record with nested values, a list of scalars,
\* an empty list and a list of records.
Report ==
  Obj(<<"title", "meta", "none", "tags", "empty", "items">>,
      <<Str(Lit(<<"t">>)),
        Obj(<<"a", "b", "c">>, <<Num(1), Arr(<<Num(2)>>), Null>>),
        Null, Arr(<<Num(1), Num(2)>>), Arr(<<>>), Arr(<<RecA, RecOther>>)>>)

Payloads ==
  { Obj(<<"name", "active", "score">>,
        <<Str(Lit(<<"Alice">>)), Bool(TRUE), Num(42)>>),
    Obj(<<>>, <<>>),
    Obj(<<"title", "meta", "items">>,
        <<Str(Lit(<<"t">>)), Obj(<<"a", "b">>, <<Num(1), Arr(<<>>)>>),
          Arr(<<RecA, RecB>>)>>),
    Obj(<<"items">>, <<Arr(<<RecA, Null>>)>>),
    Arr(<<>>),
    Arr(<<RecA, RecB>>),
    Arr(<<RecA, RecOther>>),
    Arr(<<RecA, Num(5)>>),
    Arr(<<RecA, Null>>),
    Arr(<<Null>>),
    Arr(<<Null, RecA>>),
    Arr(<<Num(1), Null, Str(Lit(<<"s">>))>>),
    Arr(<<Arr(<<Num(1), Num(2)>>), Arr(<<Num(3)>>)>>),
    Arr(<<Repo(<<CommitA, CommitB>>)>>),
    Arr(<<Repo(<<CommitA>>), Repo(<<>>)>>),
    Arr(<<Repo(<<CommitA, Null>>)>>),
    Arr(<<Repo(<<CommitA>>), Null>>),
    Arr(<<Repo(<<CommitNum>>)>>),
    Arr(<<Repo(<<CommitA>>), Num(3)>>),
    Arr(<<RecA, RecB, RecA, RecB, RecA, RecB>>),
    Arr(<<RecA, RecLong>>),
    Arr(<<RecWide>>),
    Arr(<<RecA, RecNested>>),
    Arr(<<RecNested, RecA>>),
    Report,
    Arr(<<Repo(LongLog)>>) }

\* Strings that are not JSON text: markup, markup inside text, a broken JSON
\* text, plain text, the empty string.
MarkupTexts ==
  { Lit(<<"<", "p", ">", "x", "<", "/p", ">">>),
    Lit(<<"<", "p", ">", "x">>),
    Lit(<<"<html", ">", "x", "</html>">>),
    Lit(<<"x", " ", "<div", ">", "x", "bs-n">>) }

\* A text of n words, none of which fits on a line with another.
RECURSIVE Words(_)
Words(n) ==
  IF n = 0 THEN <<>>
  ELSE IF n = 1 THEN Lit(<<"w", "o", "r">>)
  ELSE Lit(<<"w", "o", "r", " ">>) \o Words(n - 1)

PlainTexts ==
  { Lit(<<"x", " ", "y", "nbsp", "z">>),
    Words(10),
    Lit(<<"{", "x">>),
    <<>> }

\* The payloads that come as the JSON text of an item of a batch.
BatchPayloads ==
  { Obj(<<"name", "active", "score">>,
        <<Str(Lit(<<"Alice">>)), Bool(TRUE), Num(42)>>),
    Arr(<<RecA, RecB>>),
    Arr(<<RecA, RecOther>>),
    Arr(<<RecA, Null>>),
    Arr(<<Repo(<<CommitA, CommitB>>)>>) }

Contents ==
  MarkupTexts \cup PlainTexts \cup {JsonStringify(p) : p \in BatchPayloads}

\* Templates: markup with placeholders, and a template that is JSON text.
Ph(name, path) == [c |-> "{{", ph |-> name, path |-> path]

Templates ==
  { <<>>,
    Lit(<<"<", "h1", ">">>) \o <<Ph("title", <<>>), Ph("date", <<>>)>>
      \o <<Ph("content", <<>>), Ph("data", <<"name">>)>>,
    <<Ph("field", <<"name">>), Ph("table", <<>>), Ph("json", <<>>)>>,
    JsonStringify(Arr(<<Null>>)) }

\* The item payloads (item.json) of the previous node.
ItemJsons ==
  { Obj(<<"output">>, <<Str(Lit(<<"<", "p", ">">>))>>),
    Obj(<<"output">>, <<Arr(<<RecA, Null>>)>>),
    Obj(<<"html", "name">>, <<Str(Lit(<<"x">>)), Str(Lit(<<"Bob">>))>>),
    Obj(<<"output", "body">>, <<Num(5), Arr(<<RecA>>)>>),
    Obj(<<"name">>, <<Str(Lit(<<"Bob">>))>>) }

FieldFilters ==
  { [excludeFields |-> {}, includeFields |-> {}],
    [excludeFields |-> {"id"}, includeFields |-> {}],
    [excludeFields |-> {"id"}, includeFields |-> {"name", "items"}] }

PageFormats == {"A4", "Letter"}
OutputTypes == {"binary", "url", "both"}
FileNames == {<<>>, Lit(<<"report.pdf">>)}
PdfTitles == {<<>>, Lit(<<"Report">>)}

\* ------------------------------------------------------- input selection

\* A string input: JSON data when its trimmed text starts with { or [; the raw
\* data is then the parsed value, or the item's payload when it does not parse.
FromString(text, json) ==
  LET trimmed == Trim(text)
      isJsonData == StartsWith(trimmed, "{") \/ StartsWith(trimmed, "[")
  IN [contentForPdf |-> text, isJsonData |-> isJsonData,
      rawData |-> IF isJsonData /\ ParseOk(trimmed) THEN JsonParse(trimmed)
                  ELSE json]

FromObject(value) ==
  [contentForPdf |-> JsonStringify(value), isJsonData |-> TRUE, rawData |-> value]

commonFields == <<"output", "html", "text", "content", "body">>

\* The probing of the common fields: the first one that is truthy decides; a
\* truthy value that is neither a string nor an object leaves the content
\* empty.
RECURSIVE ProbeCommonFields(_, _)
ProbeCommonFields(json, j) ==
  IF j > Len(commonFields) THEN FromObject(json)
  ELSE
    LET val == Prop(json, commonFields[j]) IN
    IF ~Truthy(val) THEN ProbeCommonFields(json, j + 1)
    ELSE IF val.t = "str" THEN FromString(val.v, json)
    ELSE IF TypeofObject(val) THEN FromObject(val)
    ELSE [contentForPdf |-> <<>>, isJsonData |-> FALSE, rawData |-> Null]

\* The content, the JSON flag and the raw data of one item.
SelectInput(inputSource, htmlContent, inputField, json) ==
  IF inputSource = "manual"
    THEN FromString(IF htmlContent # <<>> THEN htmlContent
                    ELSE Lit(<<"<", "div", ">", "<", "/div", ">">>), json)
    ELSE
      LET fieldValue == Prop(json, inputField) IN
      IF Truthy(fieldValue) /\ fieldValue.t = "str"
        THEN FromString(fieldValue.v, json)
      ELSE IF Truthy(fieldValue) /\ TypeofObject(fieldValue)
        THEN FromObject(fieldValue)
      ELSE ProbeCommonFields(json, 1)

\* The inputs of one item: a manual content, or a field of the previous
\* node's payload.
Inputs ==
  { SelectInput("manual", c, "output", Obj(<<>>, <<>>)) : c \in Contents }
    \cup { SelectInput("previousNode", <<>>, f, j) :
             f \in {"output", "name"}, j \in ItemJsons }

\* ------------------------------------------------------------- execute

\* The largest batch of the model.
MaxItems == 2

VARIABLES
  items,        \* items.length: the number of input items
  i,            \* the index of the item in work (0-based, as in the code)
  pc,           \* where execute stands: "loop", "chain", "fallback", "output",
                \* "upload", "returned" or "rejected"
  par,          \* the parameters of the item in work
  route,        \* the route the item took
  doc,          \* the text the item's renderers are given: contentForPdf, or
                \* processedHtml on the template route
  attempt,      \* how many times the external chain was invoked for the item
  call,         \* the request in flight to an external collaborator
  pdfBuffer,    \* the PDF of the item, once rendered
  newItem,      \* the output record under construction
  returnItems,  \* the output records made so far
  error,        \* the error execute rejected with
  log           \* the calls made for the item in work and how each ended

vars == <<items, i, pc, par, route, doc, attempt, call, pdfBuffer, newItem,
          returnItems, error, log>>

NoCall == [to |-> "none"]
NoBuffer == [src |-> "none"]
NoItem == [index |-> -1]
NoError == [name |-> "none"]
NoPar == [pageFormat |-> "", outputType |-> "", fileName |-> <<>>,
          htmlTemplate |-> <<>>]

Strategies == <<"Weasyprint", "Html2PdfApp", "PDFShift">>

Init ==
  /\ items \in 1..MaxItems
  /\ i = 0
  /\ pc = "loop"
  /\ par = NoPar
  /\ route = "none"
  /\ doc = <<>>
  /\ attempt = 0
  /\ call = NoCall
  /\ pdfBuffer = NoBuffer
  /\ newItem = NoItem
  /\ returnItems = <<>>
  /\ error = NoError
  /\ log = <<>>

\* The parameters of item i, as getNodeParameter returns them with the
\* defaults of the code applied.  Three families: every content with every
\* page format and field filter, every template with every content and title,
\* and every kind of output with a few contents.
NoFilter == [excludeFields |-> {}, includeFields |-> {}]

OutputInputs ==
  { SelectInput("manual", c, "output", Obj(<<>>, <<>>)) :
      c \in { Lit(<<"<", "p", ">", "x", "<", "/p", ">">>),
              JsonStringify(Arr(<<RecA, RecB>>)) } }

Parameters ==
  [fileName : {<<>>}, pageFormat : PageFormats, outputType : {"binary"},
   filter : FieldFilters, pdfTitle : {<<>>},
   useTemplate : {FALSE}, htmlTemplate : {<<>>}, input : Inputs]
  \cup
  [fileName : {<<>>}, pageFormat : {"A4"}, outputType : {"binary"},
   filter : {NoFilter}, pdfTitle : PdfTitles,
   useTemplate : {TRUE}, htmlTemplate : Templates, input : Inputs]
  \cup
  [fileName : FileNames, pageFormat : {"A4"}, outputType : OutputTypes,
   filter : {NoFilter}, pdfTitle : {<<>>},
   useTemplate : {FALSE}, htmlTemplate : {<<>>}, input : OutputInputs]

renderOptions(p) ==
  [excludeFields |-> p.filter.excludeFields,
   includeFields |-> p.filter.includeFields, pdfTitle |-> p.pdfTitle]

\* useTemplate ? htmlTemplate : ''
TemplateOf(p) == IF p.useTemplate THEN p.htmlTemplate ELSE <<>>

\* A variant of isHtml that takes for markup only what starts with "<" and
\* ends with ">"; the check of the classification depends on the difference.
isHtmlStrict(content) ==
  StartsWith(Trim(content), "<") /\ EndsWith(Trim(content), ">")

\* The test of the markup route on trimmed, lower-cased content.
isHtml(content) ==
  LET trimmed == Trim(content) IN
  \/ StartsWith(trimmed, "<")
  \/ Includes(trimmed, "<html") \/ Includes(trimmed, "<body")
  \/ Includes(trimmed, "<div") \/ Includes(trimmed, "<table")

\* A variant of RouteOf that looks at the content before the template; the
\* check of the template route depends on the difference.
RouteByContentFirst(p) ==
  IF p.input.isJsonData THEN "structured"
  ELSE IF p.useTemplate /\ TemplateOf(p) # <<>> THEN "template"
  ELSE IF isHtml(p.input.contentForPdf) THEN "markup"
  ELSE "plain"

\* The if / else-if chain of execute that picks the renderer of an item.
RouteOf(p) ==
  IF p.useTemplate /\ TemplateOf(p) # <<>> THEN "template"
  ELSE IF p.input.isJsonData THEN "structured"
  ELSE IF isHtml(p.input.contentForPdf) THEN "markup"
  ELSE "plain"

\* The locals of one iteration that the rest of the iteration reads.
Keep(p) ==
  [pageFormat |-> p.pageFormat, outputType |-> p.outputType,
   fileName |-> p.fileName, options |-> renderOptions(p),
   htmlTemplate |-> TemplateOf(p), input |-> p.input]

\* renderHtmlToPdfUsingPuppeteer(html, pageFormat) up to its first await: the
\* text is normalized and wrapped and the request to the first strategy is
\* sent.  before is the log up to this call.
StartChain(html, pageFormat, before) ==
  /\ call' = [to |-> Strategies[1], k |-> 1,
              html |-> wrapHtmlDocument(normalizeHtml(html), pageFormat),
              pageFormat |-> pageFormat]
  /\ pc' = "chain"
  /\ attempt' = attempt + 1
  /\ log' = Append(before, [ev |-> "call", who |-> Strategies[1]])

\* renderTextPdfFallback is called next.
StartFallback ==
  /\ pc' = "fallback"
  /\ call' = NoCall
  /\ UNCHANGED attempt

\* Template route: the interpolated markup goes to the external chain.
TemplateRoute ==
  /\ pc = "loop" /\ i < items
  /\ \E p \in Parameters :
       /\ RouteOf(p) = "template"
       /\ par' = Keep(p)
       /\ route' = "template"
       /\ doc' = processTemplate(TemplateOf(p), p.input.rawData, p.pdfTitle)
       /\ StartChain(processTemplate(TemplateOf(p), p.input.rawData, p.pdfTitle),
                     p.pageFormat, log)
  /\ UNCHANGED <<items, i, pdfBuffer, newItem, returnItems, error>>

\* Structured route: JSON data goes to pdf-lib directly.
StructuredRoute ==
  /\ pc = "loop" /\ i < items
  /\ \E p \in Parameters :
       /\ RouteOf(p) = "structured"
       /\ par' = Keep(p)
       /\ route' = "structured"
       /\ doc' = p.input.contentForPdf
  /\ StartFallback
  /\ UNCHANGED <<items, i, pdfBuffer, newItem, returnItems, error, log>>

\* Markup route: the content goes to the external chain.
MarkupRoute ==
  /\ pc = "loop" /\ i < items
  /\ \E p \in Parameters :
       /\ RouteOf(p) = "markup"
       /\ par' = Keep(p)
       /\ route' = "markup"
       /\ doc' = p.input.contentForPdf
       /\ StartChain(p.input.contentForPdf, p.pageFormat, log)
  /\ UNCHANGED <<items, i, pdfBuffer, newItem, returnItems, error>>

\* Plain text route: the content goes to pdf-lib.
PlainTextRoute ==
  /\ pc = "loop" /\ i < items
  /\ \E p \in Parameters :
       /\ RouteOf(p) = "plain"
       /\ par' = Keep(p)
       /\ route' = "plain"
       /\ doc' = p.input.contentForPdf
  /\ StartFallback
  /\ UNCHANGED <<items, i, pdfBuffer, newItem, returnItems, error, log>>

\* ------------------------------------------------- the external strategies

\* What a strategy's server may answer.
RenderResponses ==
  [statusCode : {200, 500}, length : {100, 101}, magic : BOOLEAN]

\* The answer resolves the call: status 200, more than 100 bytes, a PDF header.
Accepted(res) == res.statusCode = 200 /\ res.length > 100 /\ res.magic

\* Variants of StrategyFails; the checks of the chain depend on the
\* difference.  The first goes to pdf-lib after one failed invocation of the
\* chain, the second ends the chain at the first failed strategy, the third
\* invokes the chain a third time on the markup route.
FailsWithoutRetry ==
  LET failed == Append(log, [ev |-> "fail", who |-> call.to]) IN
  IF call.k < Len(Strategies)
    THEN /\ call' = [call EXCEPT !.to = Strategies[call.k + 1], !.k = call.k + 1]
         /\ log' = Append(failed, [ev |-> "call", who |-> Strategies[call.k + 1]])
         /\ UNCHANGED <<pc, attempt>>
    ELSE /\ StartFallback
         /\ log' = failed

FailsAndGivesUp ==
  LET failed == Append(log, [ev |-> "fail", who |-> call.to]) IN
  IF route = "markup" /\ attempt = 1
    THEN StartChain(wrapHtmlDocument(doc, par.pageFormat), par.pageFormat, failed)
    ELSE /\ StartFallback
         /\ log' = failed

FailsAndRetriesTwice ==
  LET failed == Append(log, [ev |-> "fail", who |-> call.to]) IN
  IF call.k < Len(Strategies)
    THEN /\ call' = [call EXCEPT !.to = Strategies[call.k + 1], !.k = call.k + 1]
         /\ log' = Append(failed, [ev |-> "call", who |-> Strategies[call.k + 1]])
         /\ UNCHANGED <<pc, attempt>>
    ELSE IF route = "markup" /\ attempt <= 2
      THEN StartChain(wrapHtmlDocument(doc, par.pageFormat), par.pageFormat,
                      failed)
      ELSE /\ StartFallback
           /\ log' = failed

\* The call in flight has failed: the next strategy is called with the same
\* text; after the last one the chain throws, and its caller in execute goes on:
\* the template route to pdf-lib, the markup route to a second invocation of the
\* chain on the wrapped content and, when that has failed too, to pdf-lib.
StrategyFails ==
  LET failed == Append(log, [ev |-> "fail", who |-> call.to]) IN
  IF call.k < Len(Strategies)
    THEN /\ call' = [call EXCEPT !.to = Strategies[call.k + 1], !.k = call.k + 1]
         /\ log' = Append(failed, [ev |-> "call", who |-> Strategies[call.k + 1]])
         /\ UNCHANGED <<pc, attempt>>
    ELSE IF route = "markup" /\ attempt = 1
      THEN StartChain(wrapHtmlDocument(doc, par.pageFormat), par.pageFormat,
                      failed)
      ELSE /\ StartFallback
           /\ log' = failed

\* The strategy's server answers.
StrategyResponse ==
  /\ pc = "chain"
  /\ \E res \in RenderResponses :
       IF Accepted(res)
         THEN /\ pdfBuffer' = [src |-> call.to, length |-> res.length]
              /\ pc' = "output"
              /\ call' = NoCall
              /\ log' = Append(log, [ev |-> "ok", who |-> call.to])
              /\ UNCHANGED attempt
         ELSE StrategyFails /\ UNCHANGED pdfBuffer
  /\ UNCHANGED <<items, i, par, route, doc, newItem, returnItems, error>>

\* The request emits 'error'.
StrategyError ==
  /\ pc = "chain"
  /\ StrategyFails
  /\ UNCHANGED <<items, i, par, route, doc, pdfBuffer, newItem, returnItems,
                 error>>

\* The request's timeout fires: the request is destroyed and the call rejects.
StrategyTimeout ==
  /\ pc = "chain"
  /\ StrategyFails
  /\ UNCHANGED <<items, i, par, route, doc, pdfBuffer, newItem, returnItems,
                 error>>

\* ---------------------------------------------------------------- pdf-lib

\* What execute does with the outcome r of renderTextPdfFallback.
AfterFallback(r) ==
  IF r.threw
    THEN /\ pc' = "rejected"
         /\ error' = [name |-> "TypeError"]
         /\ UNCHANGED <<pdfBuffer, log>>
    ELSE /\ pc' = "output"
         /\ pdfBuffer' = [src |-> "pdf-lib", render |-> r]
         /\ log' = Append(log, [ev |-> "ok", who |-> "pdf-lib"])
         /\ UNCHANGED error

\* renderTextPdfFallback on the item's text.  It is awaited outside any try
\* block on the structured and plain routes and inside a catch block on the
\* others: what it throws leaves execute.
RenderFallback ==
  /\ pc = "fallback"
  /\ AfterFallback(renderTextPdfFallback(doc, par.options))
  /\ UNCHANGED <<items, i, par, route, doc, attempt, call, newItem, returnItems>>

\* ------------------------------------------------------------- the output

\* fileNameParam || `output-${i + 1}.pdf`
outFileName ==
  IF par.fileName # <<>> THEN par.fileName
  ELSE Lit(<<"output-", ToString(i + 1), ".pdf">>)

\* A variant of Push that puts the record in front of the others; the check of
\* the order of the records depends on the difference.
PushFirst(item) ==
  /\ returnItems' = <<item>> \o returnItems
  /\ i' = i + 1
  /\ pc' = "loop"
  /\ par' = NoPar
  /\ route' = "none"
  /\ doc' = <<>>
  /\ attempt' = 0
  /\ call' = NoCall
  /\ pdfBuffer' = NoBuffer
  /\ newItem' = NoItem
  /\ log' = <<>>
  /\ UNCHANGED error

\* A variant of BinaryOf that attaches the PDF whatever the output type is;
\* the check of the output record depends on the difference.
BinaryAlways(outputType) ==
  {[name |-> "pdf", mimeType |-> "application/pdf", fileName |-> outFileName]}

\* newItem.binary: empty, or the attachment pdf that prepareBinaryData makes
\* of the buffer, when the output type is binary or both.
BinaryOf(outputType) ==
  IF outputType \in {"binary", "both"}
    THEN {[name |-> "pdf", mimeType |-> "application/pdf",
           fileName |-> outFileName]}
    ELSE {}

\* The item is done: its record is pushed and the loop goes to the next item.
Push(item) ==
  /\ returnItems' = Append(returnItems, item)
  /\ i' = i + 1
  /\ pc' = "loop"
  /\ par' = NoPar
  /\ route' = "none"
  /\ doc' = <<>>
  /\ attempt' = 0
  /\ call' = NoCall
  /\ pdfBuffer' = NoBuffer
  /\ newItem' = NoItem
  /\ log' = <<>>
  /\ UNCHANGED error

\* From the rendered PDF to the next await: the check of pdfBuffer, the new
\* item, its binary attachment, and the upload request when a URL is asked for.
Output ==
  /\ pc = "output"
  /\ IF pdfBuffer.src = "none"
       THEN /\ pc' = "rejected"
            /\ error' = [name |-> "NodeOperationError", item |-> i]
            /\ UNCHANGED <<items, i, par, route, doc, attempt, call, pdfBuffer,
                           newItem, returnItems, log>>
       ELSE
         LET made == [index |-> i,
                      binary |-> BinaryOf(par.outputType),
                      pdfUrl |-> <<>>, pdfFileName |-> <<>>,
                      pdfUrlError |-> <<>>]
         IN IF par.outputType \in {"url", "both"}
              THEN /\ newItem' = made
                   /\ call' = [to |-> "file.io", fileName |-> outFileName]
                   /\ pc' = "upload"
                   /\ log' = Append(log, [ev |-> "call", who |-> "file.io"])
                   /\ UNCHANGED <<items, i, par, route, doc, attempt, pdfBuffer,
                                  returnItems, error>>
              ELSE /\ Push(made)
                   /\ UNCHANGED items

\* What file.io may answer: a body that parses or not, with or without
\* success, a link and a message.
UploadResponses ==
  [parses : BOOLEAN, success : BOOLEAN,
   link : {<<>>, Lit(<<"https://file.io/abc">>)},
   message : {<<>>, Lit(<<"quota">>)}]

\* A variant of UploadFailed that lets the failure leave execute; the check
\* of the upload depends on the difference.
UploadFailedAborts(message) ==
  /\ pc' = "rejected"
  /\ error' = [name |-> "Error", message |-> message]
  /\ UNCHANGED <<i, par, route, doc, attempt, call, pdfBuffer, newItem,
                 returnItems, log>>

UploadFailed(message) ==
  Push([newItem EXCEPT !.pdfUrlError = Lit(<<"Failed to upload PDF: ">>) \o message])

\* file.io answers: the link resolves the upload, anything else rejects it,
\* and the rejection is caught and noted in the record.
UploadResponse ==
  /\ pc = "upload"
  /\ \E res \in UploadResponses :
       IF res.parses /\ res.success /\ res.link # <<>>
         THEN Push([newItem EXCEPT !.pdfUrl = res.link,
                                   !.pdfFileName = call.fileName])
         ELSE UploadFailed(IF ~res.parses
                             THEN Lit(<<"Failed to parse upload response">>)
                           ELSE IF res.message # <<>> THEN res.message
                           ELSE Lit(<<"Upload failed">>))
  /\ UNCHANGED items

\* The upload request emits 'error'.
UploadError ==
  /\ pc = "upload"
  /\ UploadFailed(Lit(<<"ECONNRESET">>))
  /\ UNCHANGED items

\* All items are done: execute returns the records.
Return ==
  /\ pc = "loop" /\ i = items
  /\ pc' = "returned"
  /\ UNCHANGED <<items, i, par, route, doc, attempt, call, pdfBuffer, newItem,
                 returnItems, error, log>>

Next ==
  \/ TemplateRoute
  \/ StructuredRoute
  \/ MarkupRoute
  \/ PlainTextRoute
  \/ StrategyResponse
  \/ StrategyError
  \/ StrategyTimeout
  \/ RenderFallback
  \/ Output
  \/ UploadResponse
  \/ UploadError
  \/ Return

Spec == Init /\ [][Next]_vars

\* The steps that need no collaborator: those of execute itself and the timers
\* it has set.
ProgramStep ==
  \/ TemplateRoute
  \/ StructuredRoute
  \/ MarkupRoute
  \/ PlainTextRoute
  \/ StrategyTimeout
  \/ RenderFallback
  \/ Output
  \/ Return

\* ----------------------------------------------- the render on its own

\* The options renderTextPdfFallback is given.
\* A field filter that lists keys of the commits of a Git report only.
MessageAndDate == [excludeFields |-> {}, includeFields |-> {"message", "date"}]

RenderOptions ==
  { renderOptions([filter |-> f, pdfTitle |-> t]) :
      f \in FieldFilters \cup {MessageAndDate}, t \in PdfTitles }

\* An item on the structured route at the call of renderTextPdfFallback, for
\* every payload, field filter and title.
RenderInit ==
  /\ items = 1
  /\ i = 0
  /\ pc = "fallback"
  /\ \E p \in Payloads, o \in RenderOptions :
       /\ doc = JsonStringify(p)
       /\ par = [pageFormat |-> "A4", outputType |-> "binary", fileName |-> <<>>,
                 options |-> o, htmlTemplate |-> <<>>, input |-> FromObject(p)]
  /\ route = "structured"
  /\ attempt = 0
  /\ call = NoCall
  /\ pdfBuffer = NoBuffer
  /\ newItem = NoItem
  /\ returnItems = <<>>
  /\ error = NoError
  /\ log = <<>>

RenderNext == RenderFallback \/ Output \/ Return

RenderSpec == RenderInit /\ [][RenderNext]_vars

\* ------------------------------------------------------------ the checks

StrategySet == {Strategies[k] : k \in DOMAIN Strategies}

\* The calls to the external strategies made for the item in work, and how
\* each ended, in order.
StrategyLog == SelectSeq(log, LAMBDA e : e.who \in StrategySet)

\* How often strategy s was called for the item in work.
Calls(s) ==
  Cardinality({j \in DOMAIN log : log[j].ev = "call" /\ log[j].who = s})

\* The log of one invocation of the chain in which every strategy failed.
FailedChain ==
  << [ev |-> "call", who |-> "Weasyprint"], [ev |-> "fail", who |-> "Weasyprint"],
     [ev |-> "call", who |-> "Html2PdfApp"], [ev |-> "fail", who |-> "Html2PdfApp"],
     [ev |-> "call", who |-> "PDFShift"], [ev |-> "fail", who |-> "PDFShift"] >>

\* C1: the structured render of a payload that parses as a JSON object or
\* array never raises: renderTextPdfFallback always returns the bytes of a PDF
\* with something drawn, whatever the elements of the payload's arrays are.
C1_StructuredRenderNeverRaises ==
  (route = "structured" /\ ParseOk(Trim(doc))) =>
    /\ pc # "rejected"
    /\ pc = "output" => /\ pdfBuffer.src = "pdf-lib"
                        /\ ~pdfBuffer.render.threw
                        /\ pdfBuffer.render.ops # <<>>

\* C2: execute never waits forever for an external collaborator: whenever a
\* call to a render strategy or to the upload service is in flight, a timeout
\* of that call can end it, so that execute goes on whatever the collaborator
\* does.
C2_EveryCallHasTimeout ==
  pc \in {"chain", "upload"} => ENABLED ProgramStep

\* C3: no failure of an external collaborator makes execute reject: an item of
\* the template or markup route never ends in a rejection, it yields a PDF
\* from pdf-lib when every strategy has failed.
C3_ExternalFailureNeverRejects ==
  route \in {"template", "markup"} => pc # "rejected"

\* C4: on the markup route the chain is invoked first on the content; it is
\* invoked a second time, on the content wrapped in the style-sheet shell, only
\* after every strategy of the first invocation has failed; pdf-lib renders the
\* tag-stripped content only after every strategy of the second invocation has
\* failed too; the chain is invoked at most twice and pdf-lib is not invoked
\* when a strategy succeeded.
C4_MarkupRouteOrdering ==
  route = "markup" =>
    /\ attempt \in 1..2
    /\ (attempt = 1 /\ pc = "chain") =>
         call.html = wrapHtmlDocument(normalizeHtml(doc), par.pageFormat)
    /\ attempt = 2 => /\ Len(log) >= 6
                      /\ SubSeq(log, 1, 6) = FailedChain
    /\ (attempt = 2 /\ pc = "chain") =>
         call.html = wrapHtmlDocument(
                       normalizeHtml(wrapHtmlDocument(doc, par.pageFormat)),
                       par.pageFormat)
    /\ (pc = "fallback" \/ pdfBuffer.src = "pdf-lib") =>
         /\ attempt = 2
         /\ Len(log) >= 12
         /\ SubSeq(log, 1, 12) = FailedChain \o FailedChain
    /\ pdfBuffer.src = "pdf-lib" =>
         /\ \A j \in DOMAIN StrategyLog : StrategyLog[j].ev # "ok"
         /\ pdfBuffer.render.path = "plain"
         /\ pdfBuffer.render.ops =
              PlainLines([pages |-> 1, y |-> PageHeight - margin, ops |-> <<>>],
                         wrapText(sanitizeForPdf(stripHtmlTags(doc)),
                                  PageWidth - margin * 2), 1).ops

C4_Witness ==
  /\ route = "markup" /\ pc = "output" /\ pdfBuffer.src = "pdf-lib"
  /\ pdfBuffer.render.ops # <<>>

\* C5: an item without a template whose content is JSON data takes the
\* structured route, on which no external strategy is ever called: the field
\* filter is applied to the parsed data and pdf-lib renders what it kept.
C5_StructuredRouteIsLocal ==
  (route \in {"structured", "markup", "plain"} /\ par.input.isJsonData) =>
    /\ route = "structured"
    /\ attempt = 0
    /\ call.to \notin StrategySet
    /\ StrategyLog = <<>>
    /\ pdfBuffer.src \in {"none", "pdf-lib"}
    /\ (pdfBuffer.src = "pdf-lib" /\ ParseOk(Trim(doc))) =>
         /\ pdfBuffer.render.path = "structured"
         /\ pdfBuffer.render.data = filterObject(JsonParse(Trim(doc)), par.options)
         /\ pdfBuffer.render.ops =
              renderStructuredPdf(filterObject(JsonParse(Trim(doc)), par.options),
                                  par.options).ops

C5_Witness ==
  /\ route = "structured" /\ pc = "output" /\ pdfBuffer.src = "pdf-lib"
  /\ par.options.excludeFields # {}
  /\ pdfBuffer.render.data # JsonParse(Trim(doc))

\* C6: an item takes the template route exactly when a template is configured
\* (useTemplate and a non-empty template), whatever its content is; on that
\* route the template is interpolated first, the chain is invoked once on the
\* interpolated markup, and pdf-lib renders that same markup only after every
\* strategy has failed.  Every item takes one of the four routes.
C6_TemplateRoute ==
  route # "none" =>
    /\ route \in {"template", "structured", "markup", "plain"}
    /\ route = "template" <=> par.htmlTemplate # <<>>
    /\ route = "template" =>
         /\ doc = processTemplate(par.htmlTemplate, par.input.rawData,
                                  par.options.pdfTitle)
         /\ attempt = 1
         /\ log # <<>> /\ log[1] = [ev |-> "call", who |-> "Weasyprint"]
         /\ pc = "chain" =>
              call.html = wrapHtmlDocument(normalizeHtml(doc), par.pageFormat)
         /\ (pc = "fallback" \/ pdfBuffer.src = "pdf-lib") =>
              /\ Len(log) >= 6
              /\ SubSeq(log, 1, 6) = FailedChain
         /\ pdfBuffer.src = "pdf-lib" =>
              pdfBuffer.render = renderTextPdfFallback(doc, par.options)

C6_Witness ==
  /\ route = "template" /\ par.input.isJsonData
  /\ pc = "output" /\ pdfBuffer.src = "pdf-lib"

\* C7: in one invocation of the chain the strategies are called in the order
\* Weasyprint, html2pdf.app, PDFShift: a strategy is called only after the one
\* before it has failed, none is called after a success, and the chain fails
\* only after all three have failed.
C7_ChainOrder ==
  /\ \A j \in DOMAIN StrategyLog :
       IF j % 2 = 1
         THEN /\ StrategyLog[j].ev = "call"
              /\ StrategyLog[j].who = Strategies[(((j - 1) \div 2) % 3) + 1]
         ELSE /\ StrategyLog[j].ev \in {"ok", "fail"}
              /\ StrategyLog[j].who = StrategyLog[j - 1].who
              /\ StrategyLog[j].ev = "ok" => j = Len(StrategyLog)
  /\ pc = "chain" =>
       /\ Len(StrategyLog) % 2 = 1
       /\ StrategyLog[Len(StrategyLog)] = [ev |-> "call", who |-> call.to]
       /\ (Len(StrategyLog) + 1) \div 2 = 3 * (attempt - 1) + call.k
  /\ (pc = "fallback" /\ route \in {"template", "markup"}) =>
       /\ Len(StrategyLog) = 6 * attempt
       /\ SubSeq(StrategyLog, Len(StrategyLog) - 5, Len(StrategyLog)) = FailedChain

C7_Witness ==
  /\ pc = "output" /\ pdfBuffer.src = "PDFShift"
  /\ StrategyLog = SubSeq(FailedChain, 1, 5) \o <<[ev |-> "ok", who |-> "PDFShift"]>>

\* C8 as stated: each strategy is called at most once for an item, on every
\* route.
C8_OncePerItem == \A s \in StrategySet : Calls(s) <= 1

\* C8 as the code has it: each strategy is called at most once in each
\* invocation of the chain; the template route invokes the chain once, the
\* markup route up to twice, so a strategy is called at most once for an item
\* of the template route and at most twice for an item of the markup route.
C8_OncePerInvocation ==
  \A s \in StrategySet :
    /\ Calls(s) <= attempt
    /\ route = "template" => Calls(s) <= 1
    /\ route = "markup" => Calls(s) <= 2
    /\ route \in {"structured", "plain", "none"} => Calls(s) = 0

C8_Witness ==
  /\ route = "markup" /\ attempt = 2
  /\ \A s \in StrategySet : Calls(s) = 2

\* C9: with outputType url or both the step that ends the upload always emits
\* the item and goes on to the next one: after a failed upload the record has
\* pdfUrlError and neither pdfUrl nor pdfFileName, after a successful one it
\* has pdfUrl and pdfFileName and no pdfUrlError.
C9_UploadFailureNeverAborts ==
  [][pc = "upload" =>
       /\ par.outputType \in {"url", "both"}
       /\ pc' = "loop"
       /\ i' = i + 1
       /\ Len(returnItems') = Len(returnItems) + 1
       /\ SubSeq(returnItems', 1, Len(returnItems)) = returnItems
       /\ LET r == returnItems'[Len(returnItems')] IN
            /\ r.index = i
            /\ \/ /\ r.pdfUrlError # <<>>
                  /\ r.pdfUrl = <<>> /\ r.pdfFileName = <<>>
               \/ /\ r.pdfUrlError = <<>>
                  /\ r.pdfUrl # <<>> /\ r.pdfFileName = outFileName]_vars

C9_Witness ==
  /\ i = 1 /\ route # "none"
  /\ returnItems[1].pdfUrlError # <<>>
  /\ returnItems[1].pdfUrl = <<>>

\* C10: when the rendering of item i fails for good, execute raises an
\* operation error that names item i.
C10_OperationErrorNamesItem ==
  pc = "rejected" => (error.name = "NodeOperationError" /\ error.item = i)

\* C11: the items are worked on one after another, in input order: a request
\* to a collaborator is in flight only while execute awaits it (a strategy of
\* the chain, or the upload), the item in work is item i and the records of
\* the i items before it have all been produced, the records stand in input
\* order, and a run that returns has one record for each item.
C11_OneItemAtATime ==
  /\ (call.to # "none") <=> (pc \in {"chain", "upload"})
  /\ pc = "chain" => call.to \in StrategySet
  /\ pc = "upload" => call.to = "file.io"
  /\ pc \in {"loop", "chain", "fallback", "output", "upload"} =>
       Len(returnItems) = i
  /\ pc \in {"chain", "fallback", "output", "upload"} => i < items
  /\ \A j \in DOMAIN returnItems : returnItems[j].index = j - 1
  /\ pc = "returned" => Len(returnItems) = items

C11_Witness ==
  /\ pc = "returned" /\ items = 2
  /\ returnItems[1].pdfUrl # <<>>
  /\ returnItems[2].index = 1

\* The pieces whose presence anywhere in a text makes it markup.
MarkupPieces == {"<html", "<body", "<div", "<table"}

\* C12 as stated: without a template a string is markup exactly when its
\* trimmed form starts with "<" and ends with ">", and a string that starts
\* with none of "<", "{", "[" is plain text, rendered by pdf-lib with no call
\* to an external strategy.
C12_MarkupIffAngleBrackets ==
  route \in {"structured", "markup", "plain"} =>
    LET trimmed == Trim(par.input.contentForPdf) IN
    /\ route = "markup" <=>
         (StartsWith(trimmed, "<") /\ EndsWith(trimmed, ">"))
    /\ (/\ ~StartsWith(trimmed, "<")
        /\ ~StartsWith(trimmed, "{")
        /\ ~StartsWith(trimmed, "[")) =>
         /\ route = "plain"
         /\ attempt = 0
         /\ StrategyLog = <<>>

\* C12 as the code has it: without a template a string that does not start
\* with "{" or "[" is markup exactly when its trimmed form starts with "<" or
\* holds one of <html, <body, <div, <table anywhere; every other such string
\* is plain text, rendered by pdf-lib with no call to an external strategy.
C12_MarkupByHeuristic ==
  route \in {"structured", "markup", "plain"} =>
    LET trimmed == Trim(par.input.contentForPdf)
        json == StartsWith(trimmed, "{") \/ StartsWith(trimmed, "[")
        looksLikeMarkup ==
          \/ StartsWith(trimmed, "<")
          \/ \E j \in DOMAIN trimmed : trimmed[j].c \in MarkupPieces
    IN /\ route = "structured" <=> json
       /\ route = "markup" <=> (~json /\ looksLikeMarkup)
       /\ route = "plain" <=> (~json /\ ~looksLikeMarkup)
       /\ route = "markup" => attempt >= 1
       /\ route = "plain" =>
            /\ attempt = 0
            /\ StrategyLog = <<>>
            /\ call.to \notin StrategySet
            /\ pdfBuffer.src \in {"none", "pdf-lib"}

C12_Witness ==
  /\ route = "markup" /\ pc = "output"
  /\ ~StartsWith(Trim(doc), "<")
  /\ pdfBuffer.src \in StrategySet

\* C13: the record of an item carries the attachment pdf (application/pdf,
\* under the resolved file name) exactly when outputType is binary or both,
\* and the upload is called exactly when outputType is url or both: with
\* binary the record is emitted at once, with no pdfUrl, pdfFileName or
\* pdfUrlError, and no step but this one ever starts an upload.
C13_OutputFollowsOutputType ==
  [][/\ (pc = "output" /\ pdfBuffer.src # "none") =>
          LET attachment == {[name |-> "pdf", mimeType |-> "application/pdf",
                              fileName |-> outFileName]}
          IN /\ (par.outputType \in {"url", "both"}) <=>
                  (pc' = "upload" /\ call'.to = "file.io")
             /\ pc' = "upload" =>
                  /\ newItem'.index = i
                  /\ newItem'.binary =
                       (IF par.outputType = "both" THEN attachment ELSE {})
             /\ par.outputType = "binary" =>
                  /\ pc' = "loop"
                  /\ returnItems' =
                       Append(returnItems,
                              [index |-> i, binary |-> attachment,
                               pdfUrl |-> <<>>, pdfFileName |-> <<>>,
                               pdfUrlError |-> <<>>])
     /\ pc = "upload" =>
          /\ par.outputType \in {"url", "both"}
          /\ returnItems'[Len(returnItems')].binary = newItem.binary
          /\ (returnItems'[Len(returnItems')].binary # {}) <=>
               (par.outputType = "both")
     /\ pc' = "upload" => pc = "output"]_vars

C13_Witness ==
  /\ Len(returnItems) = 2
  /\ returnItems[1].binary = {} /\ returnItems[1].pdfUrl # <<>>
  /\ returnItems[2].binary # {} /\ returnItems[2].pdfUrl = <<>>
  /\ returnItems[2].pdfUrlError = <<>>

\* The predicate of the field filter on a key, as the claims state it.
Accepts(key, options) ==
  \/ /\ options.includeFields = {}
     /\ ToLowerCase(key) \notin options.excludeFields
  \/ /\ options.includeFields # {}
     /\ ToLowerCase(key) \in options.includeFields

\* Every key of the tree, at every depth, is accepted.
RECURSIVE EveryKeyAccepted(_, _)
EveryKeyAccepted(tree, options) ==
  CASE tree.t = "arr" ->
         \A j \in DOMAIN tree.v : EveryKeyAccepted(tree.v[j], options)
    [] tree.t = "obj" ->
         \A j \in DOMAIN tree.k : /\ Accepts(tree.k[j], options)
                                  /\ EveryKeyAccepted(tree.v[j], options)
    [] OTHER -> TRUE

\* kept is what is left of tree when the keys that are not accepted are taken
\* away with all that is below them: arrays keep their length and order,
\* objects keep their accepted keys in order, scalars stay as they are.
RECURSIVE IsRestriction(_, _, _)
IsRestriction(tree, kept, options) ==
  CASE tree.t = "arr" ->
         /\ kept.t = "arr"
         /\ Len(kept.v) = Len(tree.v)
         /\ \A j \in DOMAIN tree.v : IsRestriction(tree.v[j], kept.v[j], options)
    [] tree.t = "obj" ->
         /\ kept.t = "obj"
         /\ kept.k = SelectSeq(tree.k, LAMBDA k : Accepts(k, options))
         /\ \A j \in DOMAIN kept.k :
              IsRestriction(Prop(tree, kept.k[j]), kept.v[j], options)
    [] OTHER -> kept = tree

\* C14: the tree filterDataFields returns holds accepted keys only, at every
\* depth, and keeps every accepted key whose ancestors are all accepted;
\* arrays keep their length and order and scalars are unchanged.
C14_FilterIsRestriction ==
  (pdfBuffer.src = "pdf-lib" /\ pdfBuffer.render.path = "structured") =>
    /\ EveryKeyAccepted(pdfBuffer.render.data, par.options)
    /\ IsRestriction(par.input.rawData, pdfBuffer.render.data, par.options)

C14_Witness ==
  /\ pdfBuffer.src = "pdf-lib" /\ pdfBuffer.render.path = "structured"
  /\ par.options.includeFields # {} /\ par.options.excludeFields # {}
  /\ par.input.rawData = Arr(<<RecA, RecOther>>)
  /\ pdfBuffer.render.data =
       Arr(<<Obj(<<"name">>, <<Str(Lit(<<"x">>))>>),
             Obj(<<"Name">>, <<Str(Lit(<<"z">>))>>)>>)

\* C15: the field filter is idempotent: filtering what filterDataFields has
\* returned, with the same options, changes nothing.
C15_FilterIsIdempotent ==
  (pdfBuffer.src = "pdf-lib" /\ pdfBuffer.render.path = "structured") =>
    filterDataFields(pdfBuffer.render.data, par.options) = pdfBuffer.render.data

C15_Witness ==
  /\ pdfBuffer.src = "pdf-lib" /\ pdfBuffer.render.path = "structured"
  /\ par.options.includeFields # {}
  /\ Len(par.input.rawData.v) = 3
  /\ pdfBuffer.render.data # par.input.rawData
  /\ pdfBuffer.render.data.t = "obj" /\ pdfBuffer.render.data.k = <<"items">>

\* The keys drawn as labels (column headers, summary rows, section headers)
\* by the draw operations ops.
LabelsDrawn(ops) ==
  { ops[j].s[1].k :
      j \in {n \in DOMAIN ops : /\ ops[n].op = "text"
                                /\ ops[n].s # <<>>
                                /\ ops[n].s[1].c = "label"} }

\* The keys of the mappings of a tree, at every depth (the indices of its
\* arrays are not among them: the field filter never looks at an index).
RECURSIVE MappingKeys(_)
MappingKeys(tree) ==
  CASE tree.t = "arr" -> UNION {MappingKeys(tree.v[j]) : j \in DOMAIN tree.v}
    [] tree.t = "obj" ->
         {tree.k[j] : j \in DOMAIN tree.k}
           \cup UNION {MappingKeys(tree.v[j]) : j \in DOMAIN tree.v}
    [] OTHER -> {}

\* The cells of the header rows of the generic tables among ops.
HeaderTexts(ops) ==
  SelectSeq(ops, LAMBDA o : o.op = "text" /\ o.bold /\ o.size = smallSize)

RowBase(o) ==
  CASE o.op = "rect" -> o.y + lineHeight - 2
    [] o.op = "text" -> o.y + textSize
    [] o.op = "line" -> IF ~o.nan /\ o.y1 = o.y2 THEN o.y1 + lineHeight - 2
                        ELSE -1

\* What is drawn first on a new page is drawn from the top of the page: a row
\* (its background or its first text), a section header, or the header band of
\* a repository.
AtTopOfPage(o) ==
  \/ o.op = "text" /\ o.y \in {PageHeight - margin, PageHeight - margin - textSize}
  \/ o.op = "rect" /\ o.y \in {PageHeight - margin - lineHeight + 2,
                               PageHeight - margin - lineHeight - 2}

\* C17: in the structured rendering the page check comes before a row or a
\* section and never inside one: the operations of one row are all on the same
\* page, the page of the operations never goes back and advances by one new
\* page at a time, and what follows a page break is drawn from the top of the
\* new page.
C17_RowsAreNotSplit ==
  (pdfBuffer.src = "pdf-lib" /\ pdfBuffer.render.path = "structured") =>
    LET ops == pdfBuffer.render.ops IN
    /\ ops # <<>> /\ ops[1].page = 1
    /\ pdfBuffer.render.pages >= ops[Len(ops)].page
    /\ \A j \in 1..(Len(ops) - 1) :
         /\ ops[j + 1].page \in {ops[j].page, ops[j].page + 1}
         /\ (RowBase(ops[j]) # -1 /\ RowBase(ops[j]) = RowBase(ops[j + 1])) =>
              ops[j + 1].page = ops[j].page
         /\ ops[j + 1].page # ops[j].page => AtTopOfPage(ops[j + 1])

C17_Witness ==
  /\ pdfBuffer.src = "pdf-lib" /\ pdfBuffer.render.path = "structured"
  /\ par.input.rawData = Arr(<<RecA, RecB, RecA, RecB, RecA, RecB>>)
  /\ pdfBuffer.render.pages = 2
  /\ LET ops == pdfBuffer.render.ops IN
       \E j \in 2..(Len(ops) - 1) :
         /\ ops[j - 1].op = "line" /\ ops[j - 1].page = 1
         /\ ops[j].op = "rect" /\ ops[j].page = 2
         /\ ops[j + 1].op = "text" /\ ops[j + 1].page = 2
         /\ RowBase(ops[j + 1]) = RowBase(ops[j])

\* The number of lines of the plain text path that fit on one page: the first
\* at height PageHeight - margin, each one plainFontSize + 4 below the one
\* before, none below margin + plainFontSize.
LinesPerPage ==
  (PageHeight - margin - (margin + plainFontSize)) \div (plainFontSize + 4) + 1

\* C18: the plain text path paginates as the structured one does: when the
\* room of a page is used up a page is added and the following lines are drawn
\* on it, so that the last line is on the last page of the document, the page
\* of the lines never goes back, and no page holds more lines than fit
\* between its margins.
C18_PlainLinesFollowPages ==
  (pdfBuffer.src = "pdf-lib" /\ pdfBuffer.render.path = "plain") =>
    LET ops == pdfBuffer.render.ops IN
    /\ ops # <<>> => ops[Len(ops)].page = pdfBuffer.render.pages
    /\ \A j \in 1..(Len(ops) - 1) :
         ops[j + 1].page \in {ops[j].page, ops[j].page + 1}
    /\ \A p \in 1..pdfBuffer.render.pages :
         Cardinality({j \in DOMAIN ops : ops[j].page = p}) <= LinesPerPage

CellTexts(ops) ==
  Tail(SelectSeq(ops, LAMBDA o : o.op = "text" /\ ~o.bold /\ o.size = smallSize))

\* C20: in a table of n columns a cell whose value is longer than the cell's
\* budget of maxChars = floor(colWidth / 4.5) characters is drawn as a
\* text of exactly maxChars characters that ends with ".." and begins with the
\* first maxChars - 2 characters of the value, for every n.
C20_TruncationLaw ==
  (/\ pdfBuffer.src = "pdf-lib" /\ pdfBuffer.render.path = "structured"
   /\ pdfBuffer.render.data.t = "arr" /\ pdfBuffer.render.data.v # <<>>
   /\ ~Truthy(Prop(pdfBuffer.render.data.v[1], "repository"))
   /\ ColKeys(pdfBuffer.render.data) # <<>>) =>
    LET data == pdfBuffer.render.data
        colKeys == ColKeys(data)
        n == Len(colKeys)
        maxChars == CellMaxChars(n)
        cells == CellTexts(pdfBuffer.render.ops)
    IN \A r \in DOMAIN data.v, c \in 1..n :
         LET source == formatValueForPdf(Prop(data.v[r], colKeys[c]))
             drawn == cells[(r - 1) * n + c].s
         IN Len(source) > maxChars =>
              /\ Len(drawn) = maxChars
              /\ SubSeq(drawn, maxChars - 1, maxChars) = Lit(<<".", ".">>)
              /\ SubSeq(drawn, 1, maxChars - 2) = SubSeq(source, 1, maxChars - 2)

\* ------------------------------------------------------------ sanitizer

\* The longest text given to the sanitizer alone.
MaxLen == 3

\* The characters of those texts: a letter, a blank, a control character
\* (U+0001..U+001F other than white space, U+007F..U+009F), and characters
\* of each class sanitizeForPdf names.
SanitizeAlphabet ==
  {"a", " ", "ctrl", "emoji", "nonlatin", "nbsp", "hellip", "mdash", "lsquo"}

RECURSIVE TextsUpTo(_)
TextsUpTo(n) ==
  IF n = 0 THEN {<<>>}
  ELSE LET shorter == TextsUpTo(n - 1)
       IN shorter \cup { Append(s, [c |-> ch]) : s \in shorter, ch \in SanitizeAlphabet }

\* What the code's comments say sanitizeForPdf lets through: the characters
\* WinAnsi can encode, none of them non-printable.
WinAnsiPrintable(tok) ==
  tok.c \notin {"ctrl", "emoji", "miscsym", "dingbat", "varsel", "nonlatin",
                "lsquo", "rsquo", "ldquo", "rdquo", "hellip", "ndash", "mdash"}

\* sanitizeForPdf applied to a text, then to its own result: doc is the text
\* in work and log the results so far.
SanitizeInit ==
  /\ items = 1
  /\ i = 0
  /\ pc = "sanitize"
  /\ doc \in TextsUpTo(MaxLen)
  /\ par = NoPar
  /\ route = "none"
  /\ attempt = 0
  /\ call = NoCall
  /\ pdfBuffer = NoBuffer
  /\ newItem = NoItem
  /\ returnItems = <<>>
  /\ error = NoError
  /\ log = <<>>

Sanitize ==
  /\ pc = "sanitize"
  /\ Len(log) < 2
  /\ doc' = sanitizeForPdf(doc)
  /\ log' = Append(log, [ev |-> "sanitized", from |-> doc, to |-> sanitizeForPdf(doc)])
  /\ UNCHANGED <<items, i, pc, par, route, attempt, call, pdfBuffer, newItem,
                 returnItems, error>>

SanitizeNext == Sanitize

SanitizeSpec == SanitizeInit /\ [][SanitizeNext]_vars

\* C21: sanitizing a sanitized text changes nothing, and a sanitized text
\* holds only characters the font's encoding can represent.
C21_SanitizerIdempotentAndEncodable ==
  pc = "sanitize" =>
    /\ Len(log) = 2 => log[2].to = log[1].to
    /\ \A e \in 1..Len(log) : \A j \in 1..Len(log[e].to) : WinAnsiPrintable(log[e].to[j])

\* ------------------------------------------------- the generic table

\* typeof v !== 'object' || v === null
IsScalarValue(v) == ~TypeofObject(v) \/ v.t = "null"

\* The keys of the first row of a list whose value in that row is scalar, in
\* the order of the row.
FirstRowScalarKeys(arr) ==
  SelectSeq(ObjectKeys(arr.v[1]), LAMBDA k : IsScalarValue(Prop(arr.v[1], k)))

\* pdf-lib has drawn a list that is not a Git report as one generic table.
RootTableDrawn ==
  /\ pdfBuffer.src = "pdf-lib"
  /\ pdfBuffer.render.path = "structured"
  /\ pdfBuffer.render.data.t = "arr"
  /\ pdfBuffer.render.data.v # <<>>
  /\ ~(/\ Truthy(Prop(pdfBuffer.render.data.v[1], "repository"))
       /\ Truthy(Prop(pdfBuffer.render.data.v[1], "commits")))
  /\ FirstRowScalarKeys(pdfBuffer.render.data) # <<>>

\* C22 as stated: in every row of the generic table a value that is an
\* object or an array is skipped, so the table has exactly one cell for each
\* scalar value under a column.
C22_OnlyScalarsInCells ==
  RootTableDrawn =>
    LET data == pdfBuffer.render.data
        colKeys == FirstRowScalarKeys(data)
    IN Len(CellTexts(pdfBuffer.render.ops))
         = Cardinality({ rc \in (DOMAIN data.v) \X (DOMAIN colKeys) :
                           IsScalarValue(Prop(data.v[rc[1]], colKeys[rc[2]])) })

\* C22, amended: the columns of the generic table are the keys of the first
\* row whose value in the first row is scalar, so an object or an array of the
\* first row has no column and is skipped in every row; every row has one cell
\* for each column, and the cell shows the row's value whatever its type, an
\* object as its JSON text and an array as its joined elements.
C22_ColumnsSampledFromFirstRow ==
  RootTableDrawn =>
    LET data == pdfBuffer.render.data
        colKeys == FirstRowScalarKeys(data)
        n == Len(colKeys)
        heads == HeaderTexts(pdfBuffer.render.ops)
        cells == CellTexts(pdfBuffer.render.ops)
    IN /\ Len(heads) = n
       /\ \A c \in 1..n :
            heads[c].s = Truncate(formatLabelForPdf(colKeys[c]), HeaderMaxChars(n))
       /\ Len(cells) = Len(data.v) * n
       /\ \A r \in DOMAIN data.v, c \in 1..n :
            cells[(r - 1) * n + c].s
              = Truncate(formatValueForPdf(Prop(data.v[r], colKeys[c])),
                         CellMaxChars(n))

C22_Witness ==
  /\ RootTableDrawn
  /\ pdfBuffer.render.data = Arr(<<RecA, RecNested>>)
  /\ CellTexts(pdfBuffer.render.ops)[4].s
       = JsonStringify(Obj(<<"x">>, <<Num(1)>>))

\* The keys of the rows of a list that are objects.
MappingKeysOfRows(arr) ==
  UNION { {ObjectKeys(arr.v[r])[h] : h \in DOMAIN ObjectKeys(arr.v[r])} :
            r \in DOMAIN arr.v }

\* The tables renderArrayAsHtml has put into a markup.
HtmlTables(markup) ==
  SelectSeq(markup, LAMBDA tok : tok.c = "element" /\ tok.kind = "table")

\* The place at which key k is first seen in the rows of arr: the first row
\* that has it, and its place among the keys of that row.
FirstSeen(arr, k) ==
  LET r == CHOOSE r \in DOMAIN arr.v :
             /\ \E h \in DOMAIN ObjectKeys(arr.v[r]) : ObjectKeys(arr.v[r])[h] = k
             /\ \A q \in 1..(r - 1) :
                  \A h \in DOMAIN ObjectKeys(arr.v[q]) : ObjectKeys(arr.v[q])[h] # k
      h == CHOOSE h \in DOMAIN ObjectKeys(arr.v[r]) : ObjectKeys(arr.v[r])[h] = k
  IN <<r, h>>

\* C23: the generic PDF table has one column for each key of row 0 whose
\* value in row 0 is scalar, in the order of row 0, so a key that occurs only
\* in later rows has no column; the table renderArrayAsHtml makes has one
\* column for each key of any row, in the order in which the keys are first
\* seen, and each of its rows has exactly one cell for each column.
C23_ColumnDerivationAsymmetry ==
  /\ RootTableDrawn =>
       LET data == pdfBuffer.render.data
           heads == HeaderTexts(pdfBuffer.render.ops)
           firstRow == ObjectKeys(data.v[1])
           cols == { h \in DOMAIN firstRow : IsScalarValue(Prop(data.v[1], firstRow[h])) }
       IN /\ Len(heads) = Cardinality(cols)
          /\ \A c \in DOMAIN heads :
               \E h \in cols :
                 /\ heads[c].s = Truncate(formatLabelForPdf(firstRow[h]),
                                          HeaderMaxChars(Len(heads)))
                 /\ Cardinality({g \in cols : g <= h}) = c
  /\ route = "template" =>
       \A t \in DOMAIN HtmlTables(doc) :
         LET table == HtmlTables(doc)[t]
             arr == table.of
             keys == table.header
         IN /\ {keys[h] : h \in DOMAIN keys} = MappingKeysOfRows(arr)
            /\ \A g, h \in DOMAIN keys :
                 g < h => /\ keys[g] # keys[h]
                          /\ \/ FirstSeen(arr, keys[g])[1] < FirstSeen(arr, keys[h])[1]
                             \/ /\ FirstSeen(arr, keys[g])[1] = FirstSeen(arr, keys[h])[1]
                                /\ FirstSeen(arr, keys[g])[2] < FirstSeen(arr, keys[h])[2]
            /\ Len(table.rows) = Len(arr.v)
            /\ \A r \in DOMAIN table.rows :
                 /\ Len(table.rows[r]) = Len(keys)
                 /\ \A h \in DOMAIN keys : table.rows[r][h].key = keys[h]

C23_Witness ==
  /\ route = "template"
  /\ \E t \in DOMAIN HtmlTables(doc) :
       /\ HtmlTables(doc)[t].of = Arr(<<RecA, RecOther>>)
       /\ HtmlTables(doc)[t].header = <<"id", "name", "Name", "tags">>

\* ------------------------------------------------------------ templates

\* The data of the templates interpolated alone: a record with a name, a note
\* whose text is itself a placeholder, a nested record, a null and a list; a
\* list of records; no data.
Person ==
  Obj(<<"name", "note", "meta", "none", "items">>,
      <<Str(Lit(<<"B", "o", "b">>)), Str(<<Ph("field", <<"name">>)>>),
        Obj(<<"a">>, <<Num(1)>>), Null, Arr(<<RecA, RecOther>>)>>)

TemplateData == {Person, Arr(<<RecA, RecB>>), Null}

TemplateTitles == {<<>>, Lit(<<"Report">>), <<Ph("date", <<>>)>>}

\* The pieces of those templates: a piece of markup and the placeholders.
TemplatePieces ==
  { [c |-> "x"],
    Ph("title", <<>>), Ph("date", <<>>), Ph("json", <<>>), Ph("content", <<>>),
    Ph("table", <<>>), Ph("field", <<"name">>), Ph("field", <<"missing">>),
    Ph("data", <<"name">>), Ph("data", <<"note">>), Ph("data", <<"missing">>),
    Ph("data", <<"meta", "a">>), Ph("data", <<"meta", "zz">>),
    Ph("data", <<"none", "x">>), Ph("data", <<"missing", "x">>),
    Ph("data", <<"name", "x">>), Ph("data", <<"name", "length">>),
    Ph("data", <<"items", "length">>) }

\* The longest of those templates, in pieces.
MaxPieces == 2

TemplateTexts ==
  UNION { [1..n -> TemplatePieces] : n \in 1..MaxPieces }

\* processTemplate applied to a template, the data and a title: par holds the
\* three, doc the interpolated markup.
TemplateInit ==
  /\ items = 1
  /\ i = 0
  /\ pc = "template"
  /\ \E t \in TemplateTexts, d \in TemplateData, title \in TemplateTitles :
       par = [pageFormat |-> "A4", outputType |-> "binary", fileName |-> <<>>,
              options |-> [excludeFields |-> {}, includeFields |-> {},
                           pdfTitle |-> title],
              htmlTemplate |-> t, input |-> FromObject(d)]
  /\ route = "template"
  /\ doc = <<>>
  /\ attempt = 0
  /\ call = NoCall
  /\ pdfBuffer = NoBuffer
  /\ newItem = NoItem
  /\ returnItems = <<>>
  /\ error = NoError
  /\ log = <<>>

Interpolate ==
  /\ pc = "template"
  /\ doc' = processTemplate(par.htmlTemplate, par.input.rawData,
                            par.options.pdfTitle)
  /\ pc' = "interpolated"
  /\ UNCHANGED <<items, i, par, route, attempt, call, pdfBuffer, newItem,
                 returnItems, error, log>>

TemplateNext == Interpolate

TemplateSpec == TemplateInit /\ [][TemplateNext]_vars

\* What a placeholder of the template stands for, given the data and the
\* title.
Substitute(tok, data, title) ==
  CASE tok.ph = "title" ->
         escapeHtml(IF title # <<>> THEN title ELSE Lit(<<"Dokument">>))
    [] tok.ph \in {"date", "datetime"} -> Lit(<<"now">>)
    [] tok.ph = "json" ->
         Lit(<<"<", "pre", ">">>) \o escapeHtml(JsonStringify(data))
           \o Lit(<<"<", "/pre", ">">>)
    [] tok.ph = "content" -> toHtml(data)
    [] tok.ph = "table" -> TableMarkup(data)
    [] tok.ph = "data" -> FieldMarkup(getNestedValue(data, tok.path))
    [] OTHER -> IF data.t = "obj" THEN FieldMarkup(Prop(data, tok.path[1]))
                ELSE <<>>

\* The template with every placeholder replaced once by what it stands for.
SubstitutedOnce(template, data, title) ==
  Concat([j \in 1..Len(template) |->
            IF template[j].c = "{{" THEN Substitute(template[j], data, title)
            ELSE <<template[j]>>])

\* C24: every placeholder of the template is replaced exactly once and what a
\* pass has put in is not substituted by a later pass: the interpolated
\* markup is the template with each placeholder replaced by what it stands
\* for, and it holds no "{{".
C24_NoDoubleSubstitution ==
  pc = "interpolated" =>
    /\ doc = SubstitutedOnce(par.htmlTemplate, par.input.rawData,
                             par.options.pdfTitle)
    /\ \A j \in DOMAIN doc : doc[j].c # "{{"

\* The field a dotted path names in a tree, when it names one: every step but
\* the last leads through an own field of a record or an element of a list.
RECURSIVE NamesField(_, _)
NamesField(tree, parts) ==
  IF parts = <<>> THEN TRUE
  ELSE /\ tree.t \in {"obj", "arr"}
       /\ \E h \in DOMAIN ObjectKeys(tree) : ObjectKeys(tree)[h] = parts[1]
       /\ NamesField(Prop(tree, parts[1]), Tail(parts))

\* C25: a placeholder {{data.<path>}} whose path names no field of the data
\* (a key is missing at some step, or a step leads through a scalar or null)
\* is replaced by the empty string.
C25_MissingPathIsEmpty ==
  (/\ pc = "interpolated"
   /\ Len(par.htmlTemplate) = 1
   /\ par.htmlTemplate[1].c = "{{"
   /\ par.htmlTemplate[1].ph = "data"
   /\ ~NamesField(par.input.rawData, par.htmlTemplate[1].path)) =>
    doc = <<>>

\* ------------------------------------------------------ the Git report

\* pdf-lib has drawn a list in the layout of the Git commit report.
GitReportDrawn ==
  /\ pdfBuffer.src = "pdf-lib"
  /\ pdfBuffer.render.path = "structured"
  /\ pdfBuffer.render.data.t = "arr"
  /\ pdfBuffer.render.data.v # <<>>
  /\ Truthy(Prop(pdfBuffer.render.data.v[1], "repository"))
  /\ Truthy(Prop(pdfBuffer.render.data.v[1], "commits"))

\* The commits of the repositories of a report, in the order of their rows.
RECURSIVE AllCommits(_, _)
AllCommits(data, j) ==
  IF j > Len(data.v) THEN <<>>
  ELSE (IF Truthy(Prop(data.v[j], "commits"))
          THEN Elements(Prop(data.v[j], "commits")) ELSE <<>>)
         \o AllCommits(data, j + 1)

\* The date of a commit: the date of its author, or its own.
DateOf(commit) ==
  IF Truthy(Prop(commit, "author")) /\ Truthy(Prop(Prop(commit, "author"), "date"))
    THEN Prop(Prop(commit, "author"), "date")
  ELSE Prop(commit, "date")

\* A text that new Date() reads as a date.
IsWellFormedDate(d) == d.t = "str" /\ d.v = Lit(<<"isodate">>)

\* C26: in the commit table of the Git report the date cell of a commit shows
\* the date in the locale's form when the date text is well formed, and the
\* text itself, unchanged, when it is malformed.
C26_MalformedDateDrawnRaw ==
  GitReportDrawn =>
    LET commits == AllCommits(pdfBuffer.render.data, 1)
        cells == CellTexts(pdfBuffer.render.ops)
    IN \A j \in DOMAIN commits :
         LET d == DateOf(commits[j]) IN
         (Truthy(d) /\ d.t = "str") =>
           cells[4 * j].s = IF IsWellFormedDate(d)
                              THEN << [c |-> "localdate", d |-> d] >>
                              ELSE d.v

\* ------------------------------------------------------ input selection

\* The payloads, the field names and the manual contents of the items whose
\* input is selected alone.
SelectJsons ==
  { Obj(<<"output">>, <<Str(Lit(<<"<", "p", ">">>))>>),
    Obj(<<"output">>, <<Arr(<<RecA>>)>>),
    Obj(<<"output">>, <<Num(5)>>),
    Obj(<<"output">>, <<Bool(TRUE)>>),
    Obj(<<"output">>, <<Bool(FALSE)>>),
    Obj(<<"output", "body">>, <<Num(5), Arr(<<RecA>>)>>),
    Obj(<<"output", "html">>, <<Str(<<>>), Str(Lit(<<"x">>))>>),
    Obj(<<"output", "text">>, <<Null, Str(Lit(<<"t">>))>>),
    Obj(<<"html", "name">>, <<Str(Lit(<<"x">>)), Str(Lit(<<"Bob">>))>>),
    Obj(<<"html", "text">>, <<Num(0), Str(Lit(<<"t">>))>>),
    Obj(<<"text">>, <<Str(Lit(<<"t">>))>>),
    Obj(<<"content">>, <<Obj(<<"a">>, <<Num(1)>>)>>),
    Obj(<<"body">>, <<Str(JsonStringify(Arr(<<RecA, RecB>>)))>>),
    Obj(<<"body", "name">>, <<Str(Lit(<<"{", "x">>)), Num(7)>>),
    Obj(<<"name">>, <<Str(Lit(<<"Bob">>))>>),
    Obj(<<"name">>, <<Num(7)>>),
    Obj(<<>>, <<>>) }

SelectFields == {"output", "name", "body", "missing"}

SelectContents == {<<>>, Lit(<<"x">>), JsonStringify(Arr(<<RecA>>))}

\* The input selection of one item: par holds the parameters and the payload
\* of the item and, once selected, the input; doc is the content selected.
SelectInit ==
  /\ items = 1
  /\ i = 0
  /\ pc = "select"
  /\ \E j \in SelectJsons :
       \/ \E f \in SelectFields :
            par = [inputSource |-> "previousNode", htmlContent |-> <<>>,
                   inputField |-> f, json |-> j]
       \/ \E c \in SelectContents :
            par = [inputSource |-> "manual", htmlContent |-> c,
                   inputField |-> "output", json |-> j]
  /\ route = "none"
  /\ doc = <<>>
  /\ attempt = 0
  /\ call = NoCall
  /\ pdfBuffer = NoBuffer
  /\ newItem = NoItem
  /\ returnItems = <<>>
  /\ error = NoError
  /\ log = <<>>

Select ==
  /\ pc = "select"
  /\ doc' = SelectInput(par.inputSource, par.htmlContent, par.inputField,
                        par.json).contentForPdf
  /\ log' = <<SelectInput(par.inputSource, par.htmlContent, par.inputField,
                          par.json)>>
  /\ pc' = "selected"
  /\ UNCHANGED <<items, i, par, route, attempt, call, pdfBuffer, newItem,
                 returnItems, error>>

SelectNext == Select

SelectSpec == SelectInit /\ [][SelectNext]_vars

\* A value as content: a text as it is, a record or a list as its JSON text,
\* any other value as the text JavaScript prints for it.
ContentOf(v) ==
  IF v.t = "str" THEN v.v
  ELSE IF v.t \in {"obj", "arr"} THEN JsonStringify(v)
  ELSE JsString(v)

\* C27: with inputSource = previousNode the content is the value of the named
\* field, or the value of the first of output, html, text, content, body that
\* is present, or, when none of them is present, the JSON text of the whole
\* payload; it is never empty.
C27_ContentComesFromPayload ==
  (pc = "selected" /\ par.inputSource = "previousNode") =>
    LET named == Prop(par.json, par.inputField)
        probed == [h \in DOMAIN commonFields |-> Prop(par.json, commonFields[h])]
    IN /\ doc # <<>>
       /\ \/ Truthy(named) /\ doc = ContentOf(named)
          \/ \E h \in DOMAIN probed :
               /\ Truthy(probed[h])
               /\ \A g \in 1..(h - 1) : ~Truthy(probed[g])
               /\ doc = ContentOf(probed[h])
          \/ /\ \A h \in DOMAIN probed : ~Truthy(probed[h])
             /\ doc = JsonStringify(par.json)

\* ------------------------------------------------- the generic report

\* pdf-lib has drawn a record in the generic layout.
GenericReportDrawn ==
  /\ pdfBuffer.src = "pdf-lib"
  /\ pdfBuffer.render.path = "structured"
  /\ pdfBuffer.render.data.t = "obj"

\* The keys of a record by the kind of their value, in insertion order.
ScalarKeysOf(data) ==
  SelectSeq(ObjectKeys(data), LAMBDA k : Prop(data, k).t \notin {"arr", "obj"})

ArrayKeysOf(data) ==
  SelectSeq(ObjectKeys(data), LAMBDA k : Prop(data, k).t = "arr")

RecordKeysOf(data) ==
  SelectSeq(ObjectKeys(data), LAMBDA k : Prop(data, k).t = "obj")

\* The texts drawn in a size and weight among ops, in the order drawn.
TextsOf(ops, size, bold) ==
  LET sel == SelectSeq(ops, LAMBDA o : o.op = "text" /\ o.size = size /\ o.bold = bold)
  IN [j \in DOMAIN sel |-> sel[j].s]

\* The places of the section headers among ops, and the operations of the
\* section a header opens: those up to the next header.
SectionHeaders(ops) ==
  SelectSeq([j \in DOMAIN ops |-> j],
            LAMBDA j : ops[j].op = "text" /\ ops[j].size = subHeaderSize /\ ops[j].bold)

SectionOps(ops, heads, m) ==
  SubSeq(ops, heads[m] + 1,
         IF m < Len(heads) THEN heads[m + 1] - 1 ELSE Len(ops))

\* The summary: one row for each scalar key, in insertion order, before every
\* section.
SummaryComesFirst(data, ops) ==
  LET heads == SectionHeaders(ops)
      labels == [j \in DOMAIN ScalarKeysOf(data) |->
                   formatLabelForPdf(ScalarKeysOf(data)[j])]
  IN /\ TextsOf(ops, textSize, TRUE) = labels
     /\ heads # <<>> =>
          TextsOf(SubSeq(ops, 1, heads[1] - 1), textSize, TRUE) = labels

\* The sections of the lists named by keys, in this order: each a header with
\* the key's label, followed by the table of the list (the labels of the
\* scalar keys of its first row and one cell for each row and column) or,
\* for a list whose first row has no scalar key, by one line for each element.
ListSections(data, ops, keys) ==
  LET heads == SelectSeq(SectionHeaders(ops),
                         LAMBDA j : Prop(data, ops[j].s[1].k).t = "arr")
      all == SectionHeaders(ops)
  IN /\ [m \in DOMAIN heads |-> ops[heads[m]].s] =
          [m \in DOMAIN keys |-> formatLabelForPdf(keys[m])]
     /\ \A m \in DOMAIN all :
          LET arr == Prop(data, ops[all[m]].s[1].k)
              section == SectionOps(ops, all, m)
          IN arr.t = "arr" =>
               LET cols == FirstRowScalarKeys(arr) IN
               IF cols # <<>>
                 THEN /\ TextsOf(section, smallSize, TRUE) =
                           [c \in DOMAIN cols |->
                              Truncate(formatLabelForPdf(cols[c]),
                                       HeaderMaxChars(Len(cols)))]
                      /\ Len(TextsOf(section, smallSize, FALSE))
                           = Len(arr.v) * Len(cols)
                 ELSE TextsOf(section, textSize, FALSE) =
                        [r \in DOMAIN arr.v |->
                           sanitizeForPdf(Lit(<<"-", " ">>)
                                          \o formatValueForPdf(arr.v[r]))]

\* The sub-list of every nested record: a header with the key's label and one
\* line for each scalar field of the record, a nested value being skipped.
RecordSections(data, ops) ==
  LET all == SectionHeaders(ops)
      heads == SelectSeq(all, LAMBDA j : Prop(data, ops[j].s[1].k).t = "obj")
  IN /\ [m \in DOMAIN heads |-> ops[heads[m]].s] =
          [m \in DOMAIN RecordKeysOf(data) |->
             formatLabelForPdf(RecordKeysOf(data)[m])]
     /\ \A m \in DOMAIN all :
          LET obj == Prop(data, ops[all[m]].s[1].k)
              section == SectionOps(ops, all, m)
              fields == SelectSeq(ObjectKeys(obj),
                                  LAMBDA k : IsScalarValue(Prop(obj, k)))
          IN obj.t = "obj" =>
               /\ TextsOf(section, smallSize, TRUE) =
                    [f \in DOMAIN fields |-> formatLabelForPdf(fields[f])]
               /\ TextsOf(section, smallSize, FALSE) =
                    [f \in DOMAIN fields |-> formatValueForPdf(Prop(obj, fields[f]))]

\* C28 as stated: the summary comes first, every nested list then has its
\* section, in insertion order of the keys, and every nested record its
\* sub-list.
C28_EveryListHasItsSection ==
  GenericReportDrawn =>
    /\ SummaryComesFirst(pdfBuffer.render.data, pdfBuffer.render.ops)
    /\ ListSections(pdfBuffer.render.data, pdfBuffer.render.ops,
                    ArrayKeysOf(pdfBuffer.render.data))
    /\ RecordSections(pdfBuffer.render.data, pdfBuffer.render.ops)

\* C28, amended: the summary comes first, every nested list that is not empty
\* then has its section, in insertion order of the keys, and every nested
\* record its sub-list; an empty list has no section at all.
C28_NonEmptyListsHaveSections ==
  GenericReportDrawn =>
    /\ SummaryComesFirst(pdfBuffer.render.data, pdfBuffer.render.ops)
    /\ ListSections(pdfBuffer.render.data, pdfBuffer.render.ops,
                    SelectSeq(ArrayKeysOf(pdfBuffer.render.data),
                              LAMBDA k : Prop(pdfBuffer.render.data, k).v # <<>>))
    /\ RecordSections(pdfBuffer.render.data, pdfBuffer.render.ops)

C28_Witness ==
  /\ GenericReportDrawn
  /\ pdfBuffer.render.data = Report
  /\ Len(SectionHeaders(pdfBuffer.render.ops)) = 3
  /\ TextsOf(pdfBuffer.render.ops, textSize, FALSE)[3]
       = Lit(<<"-", " ", "1">>)

\* ------------------------------------------------------------ the page

\* A height on the page.
OnPage(y) == 0 <= y /\ y <= PageHeight

\* C29: every operation of the structured rendering draws inside its page:
\* the heights of a line, the lower and the upper edge of a rectangle and the
\* baseline of a text lie between 0 and the page height, and no baseline lies
\* below the bottom margin.
C29_DrawsInsideThePage ==
  (pdfBuffer.src = "pdf-lib" /\ pdfBuffer.render.path = "structured") =>
    \A j \in DOMAIN pdfBuffer.render.ops :
      LET o == pdfBuffer.render.ops[j] IN
      CASE o.op = "text" -> OnPage(o.y) /\ o.y >= margin
        [] o.op = "rect" -> OnPage(o.y) /\ OnPage(o.y + o.h)
        [] OTHER -> ~o.nan /\ OnPage(o.y1) /\ OnPage(o.y2)

\* ------------------------------------------------- includeFields in depth

\* The paths of mapping keys that lead from the root of a tree to each of its
\* keys; the elements of a list are on the path of the list.
RECURSIVE KeyPaths(_)
KeyPaths(tree) ==
  CASE tree.t = "arr" -> UNION { KeyPaths(tree.v[j]) : j \in DOMAIN tree.v }
    [] tree.t = "obj" ->
         UNION { {<<tree.k[j]>>}
                   \cup { <<tree.k[j]>> \o p : p \in KeyPaths(tree.v[j]) } :
                 j \in DOMAIN tree.k }
    [] OTHER -> {}

=============================================================================
